---- MODULE Spec2Model ----
(***************************************************************************)
(* Resource state pollers of footmark: the wall-clock pollers of           *)
(* footmark/vpc/connection.py (vpc, vswitch, route entry, eip) and the     *)
(* retry-decorated pollers of footmark/ecs/connection.py (instance status, *)
(* disk status, security-group membership).                                *)
(*                                                                         *)
(* One call is in flight at a time.  A call is started from "idle" with    *)
(* its arguments, then alternates between a fetch step (one evaluation of  *)
(* the loop body up to the sleep) and a sleep step, until it returns or    *)
(* raises.  What the provider answers to a fetch is chosen freely at each  *)
(* fetch.  Strings are tuples of one-character strings so that lower() and *)
(* strip() are computed, not assumed.                                      *)
(*                                                                         *)
(* The orchestrators of footmark/ecs/connection.py that call them (batch   *)
(* start / stop / reboot / terminate / delete, join and leave security     *)
(* group, create instance, attach and detach disk, snapshot progress,      *)
(* create image) and delete_vpc / delete_vswitch of                        *)
(* footmark/vpc/connection.py are a second state machine over their own    *)
(* variables, specified by OrchSpec.  build_filter_params is an operator,  *)
(* applied to calls drawn from bounded sets by FilterSpec.                 *)
(***************************************************************************)
EXTENDS Integers, Sequences, FiniteSets, TLC

\* ------------------------------------------------------------------ bounds
MaxInterval == 3
MaxTimeout == 5
MaxFetches == 8
MaxSlept == 40

\* --------------------------------------------------------------- strings
UpperLetters == <<"A","B","C","D","E","F","G","H","I","J","K","L","M",
                  "N","O","P","Q","R","S","T","U","V","W","X","Y","Z">>
LowerLetters == <<"a","b","c","d","e","f","g","h","i","j","k","l","m",
                  "n","o","p","q","r","s","t","u","v","w","x","y","z">>

\* str.lower on one character
LowerChar(c) ==
    IF \E i \in 1..Len(UpperLetters) : UpperLetters[i] = c
    THEN LowerLetters[CHOOSE i \in 1..Len(UpperLetters) : UpperLetters[i] = c]
    ELSE c

\* str.lower
Lower(s) == [i \in 1..Len(s) |-> LowerChar(s[i])]

RECURSIVE LStrip(_)
LStrip(s) == IF s # <<>> /\ Head(s) = " " THEN LStrip(Tail(s)) ELSE s

RECURSIVE RStrip(_)
RStrip(s) ==
    IF s # <<>> /\ s[Len(s)] = " " THEN RStrip(SubSeq(s, 1, Len(s) - 1)) ELSE s

\* str.strip
Strip(s) == RStrip(LStrip(s))

Available == <<"A","v","a","i","l","a","b","l","e">>
available == <<"a","v","a","i","l","a","b","l","e">>
AVAILABLE == <<"A","V","A","I","L","A","B","L","E">>
Pending == <<"P","e","n","d","i","n","g">>
in_use == <<"i","n","_","u","s","e">>
In_use_sp == <<"I","n","_","u","s","e"," ">>

\* target state names a caller may pass
Targets == {Available, available, in_use}
\* status strings the provider may report
Reported == {Available, available, AVAILABLE, Pending, In_use_sp}

join == <<"j","o","i","n">>
remove == <<"r","e","m","o","v","e">>
Remove == <<"R","e","m","o","v","e">>

\* modes a caller may pass to verify_join_remove_securitygrp
Modes == {join, remove, Remove}
\* security group ids
Groups == {"sg-1", "sg-2"}

\* ------------------------------------------------------ program constants
RetryDelay == 30
RetryBackoff == 2
InstanceTries == 10
DiskTries == 3
SecurityGroupTries == 3
InstanceInterval == 10
DiskInterval == 3
SecurityGroupInterval == 5
DeleteTries == 4
DeleteInterval == 5

\* ---------------------------------------------------------- observations
ObsRaise == [kind |-> "raise", status |-> <<>>, instances |-> <<>>]
ObsNotFound == [kind |-> "notfound", status |-> <<>>, instances |-> <<>>]
ObsStatus(s) == [kind |-> "status", status |-> s, instances |-> <<>>]
\* get_all_instances answered a list of instances, each given by its
\* security_group_ids['security_group_id'] list
ObsInstances(l) == [kind |-> "instances", status |-> <<>>, instances |-> l]

\* instance lists the provider may answer for one instance id
InstanceLists ==
    { <<>>, << <<>> >>, << <<"sg-1">> >>, << <<"sg-2">> >>,
      << <<"sg-1", "sg-2">> >>, << <<"sg-2">>, <<"sg-1">> >> }

\* what get_all_instances can answer
InstanceObservations == {ObsRaise} \cup {ObsInstances(l) : l \in InstanceLists}

\* what a fetch of a resource with a status field can answer
StatusObservations == {ObsRaise, ObsNotFound} \cup {ObsStatus(s) : s \in Reported}

VARIABLES
    pc,          \* "idle", "fetch", "sleep", "retry", "done"
    fn,          \* the poller in flight
    status,      \* argument: target state name
    interval,    \* argument: interval / delay
    timeout,     \* argument timeout; wait_for_vpc/vswitch_status decrement it
    tm,          \* local tm of wait_for_eip_status / wait_for_route_entry_status
    mtries,      \* retry decorator: mtries
    mdelay,      \* retry decorator: mdelay
    mode,        \* argument of verify_join_remove_securitygrp
    group_id,    \* argument of verify_join_remove_securitygrp
    done,        \* local done of verify_join_remove_securitygrp
    count,       \* local count of verify_join_remove_securitygrp
    outcome,     \* how the call ended
    timeout0,    \* history: the timeout the call was given
    fetches,     \* history: number of fetches issued in the call
    slept,       \* history: total time slept in the call
    firstExact,  \* history: index of the first fetch reporting exactly the target
    firstCI,     \* history: index of the first fetch reporting the target up to case
    firstLoose,  \* history: the same, up to case and surrounding blanks
    sawNotFound, \* history: some fetch reported no resource
    sawRaise,    \* history: some fetch raised
    answer,      \* delete_object_retry: answer of the latest delete attempt
    sawOther,    \* history: some delete attempt was not answered Initializing
    op,          \* the orchestrator in flight
    opc,         \* its position: "idle", the step it is about to take, "done"
    input,       \* its arguments
    item,        \* index of the item its loop is at
    sent,        \* history: the provider requests it issued, in order
    results,     \* local results (result in terminate_instances)
    changed,     \* local changed
    instances,   \* local instances of create_instance
    success_instance_ids, \* local of join / leave_security_group
    failed_instance_ids,  \* local of join / leave_security_group
    ret,         \* how the orchestrator ended
    raised,      \* history: per item attempted, the exception its steps raised
    shown,       \* history: the <<item, status>> pairs fetches have shown
    polls,       \* history: fetches of the wait in progress that left it waiting
    counter,     \* local counter of get_snapshot_image
    progress,    \* local progress of get_snapshot_image
    disk,        \* the disk retrieve_instance_for_disk fetched
    fpc,         \* build_filter_params: "idle", "called", "done"; a tag
                 \* loop: "idle", "tagging", "tagged"
    filters,     \* its filters argument
    defined,     \* whether the base class has a method build_filters_params
    params0,     \* history: the accumulator as it was passed
    params,      \* the accumulator: parameter name -> value
    warned,      \* warnings.warn calls made
    fret,        \* "none", "return", or the exception raised
    tagger,      \* the function whose tag loop runs
    tags         \* its tags argument

pollVars == <<pc, fn, status, interval, timeout, tm, mtries, mdelay, mode,
              group_id, done, count, outcome, timeout0, fetches, slept,
              firstExact, firstCI, firstLoose, sawNotFound, sawRaise,
              answer, sawOther>>

orchVars == <<op, opc, input, item, sent, results, changed, instances,
              success_instance_ids, failed_instance_ids, ret, raised, shown,
              polls, counter, progress, disk>>

filterVars ==
    <<fpc, filters, defined, params0, params, warned, fret, tagger, tags>>

vars == <<pollVars, orchVars, filterVars>>

delVars == <<answer, sawOther>>
args == <<fn, status, interval, timeout0, mode, group_id>>
sgLocals == <<done, count>>
hist == <<fetches, firstExact, firstCI, firstLoose, sawNotFound, sawRaise>>
retryVars == <<mtries, mdelay>>

Min(a, b) == IF a < b THEN a ELSE b

NoOutcome ==
    [kind |-> "none", value |-> "none", error |-> "none",
     errStatus |-> <<>>, errSeconds |-> 0]
Return(v) ==
    [kind |-> "return", value |-> v, error |-> "none",
     errStatus |-> <<>>, errSeconds |-> 0]
\* the timeout exception: its message is formatted from (status, seconds)
RaiseTimeout(s, seconds) ==
    [kind |-> "raise", value |-> "none", error |-> "timeout",
     errStatus |-> s, errSeconds |-> seconds]
\* an exception of the fetch, re-raised or wrapped with the status
RaiseFetch(s) ==
    [kind |-> "raise", value |-> "none", error |-> "fetch",
     errStatus |-> s, errSeconds |-> 0]
\* raise Exception: the bare class, no message
RaiseBare ==
    [kind |-> "raise", value |-> "none", error |-> "bare",
     errStatus |-> <<>>, errSeconds |-> 0]

\* ------------------------------------------------- values of orchestrators

\* an answer of a step, or an exception it raises, without a provider code
Plain(t) == [type |-> t, code |-> "none"]
\* exceptions a step may raise
NoException == Plain("none")
ServerException(c) == [type |-> "ServerException", code |-> c]
ECSResponseError(c) == [type |-> "ECSResponseError", code |-> c]
OtherException == Plain("Exception")

\* how an orchestrator ended
NoRet == [kind |-> "none", error |-> NoException]
Returned == [kind |-> "return", error |-> NoException]
Raised(e) == [kind |-> "raise", error |-> e]

\* a Python value of a field of a fetched disk: its type and what str()
\* makes of it
Py(t, r) == [type |-> t, repr |-> r]

NoDisk ==
    [found |-> FALSE, status |-> <<>>, instance_id |-> Py("NoneType", "None"),
     portable |-> Py("NoneType", "None")]

\* the arguments of an orchestrator
Input(kind, ids, n, a, b, i) ==
    [kind |-> kind, ids |-> ids, count |-> n, allocate_public_ip |-> a,
     bind_eip |-> b, instance_id |-> i]

Init ==
    /\ fpc = "idle"
    /\ filters = [isdict |-> FALSE, items |-> <<>>]
    /\ defined = FALSE
    /\ params0 = <<>>
    /\ params = <<>>
    /\ warned = 0
    /\ fret = "none"
    /\ tagger = "none"
    /\ tags = <<>>
    /\ op = "none"
    /\ opc = "idle"
    /\ input = Input("none", <<>>, 0, FALSE, FALSE, "")
    /\ item = 0
    /\ sent = <<>>
    /\ results = <<>>
    /\ changed = FALSE
    /\ instances = <<>>
    /\ success_instance_ids = <<>>
    /\ failed_instance_ids = <<>>
    /\ ret = NoRet
    /\ raised = <<>>
    /\ shown = {}
    /\ polls = 0
    /\ counter = 0
    /\ progress = <<>>
    /\ disk = NoDisk
    /\ pc = "idle"
    /\ fn = "none"
    /\ status = <<>>
    /\ interval = 0
    /\ timeout = 0
    /\ tm = 0
    /\ mtries = 0
    /\ mdelay = 0
    /\ mode = <<>>
    /\ group_id = "none"
    /\ done = FALSE
    /\ count = 0
    /\ outcome = NoOutcome
    /\ timeout0 = 0
    /\ fetches = 0
    /\ slept = 0
    /\ firstExact = 0
    /\ firstCI = 0
    /\ firstLoose = 0
    /\ sawNotFound = FALSE
    /\ sawRaise = FALSE
    /\ answer = "none"
    /\ sawOther = FALSE

Range(s) == {s[i] : i \in 1..Len(s)}

\* the answered instance list shows the membership the call waits for:
\* the instance is listed, with the group (join) or without it (remove)
MembershipReached(l) ==
    /\ l # <<>>
    /\ IF Lower(mode) = join
       THEN \A i \in 1..Len(l) : group_id \in Range(l[i])
       ELSE \A i \in 1..Len(l) : group_id \notin Range(l[i])

\* the answer shows the target state, letter for letter
ShowsTarget(o) ==
    \/ o.kind = "status" /\ o.status = status
    \/ o.kind = "instances" /\ MembershipReached(o.instances)

\* the answer shows the target state, up to letter case
ShowsTargetAnyCase(o) ==
    \/ o.kind = "status" /\ Lower(o.status) = Lower(status)
    \/ o.kind = "instances" /\ MembershipReached(o.instances)

\* the answer shows the target state, up to letter case and surrounding blanks
ShowsTargetLoosely(o) ==
    \/ o.kind = "status" /\ Lower(Strip(o.status)) = Lower(Strip(status))
    \/ o.kind = "instances" /\ MembershipReached(o.instances)

\* A fetch is issued and answers o: the history of the call is extended.
\* fetches and slept saturate at MaxFetches / MaxSlept.
Observe(o) ==
    /\ fetches' = Min(fetches + 1, MaxFetches)
    /\ firstExact' = IF firstExact = 0 /\ ShowsTarget(o)
                     THEN fetches' ELSE firstExact
    /\ firstCI' = IF firstCI = 0 /\ ShowsTargetAnyCase(o)
                  THEN fetches' ELSE firstCI
    /\ firstLoose' = IF firstLoose = 0 /\ ShowsTargetLoosely(o)
                     THEN fetches' ELSE firstLoose
    /\ sawNotFound' = (sawNotFound \/ o.kind = "notfound"
                           \/ (o.kind = "instances" /\ o.instances = <<>>))
    /\ sawRaise' = (sawRaise \/ o.kind = "raise")

\* time.sleep(d)
SleepFor(d) == slept' = Min(slept + d, MaxSlept)

\* a call starts: arguments are bound
Enter(f, s, d, t) ==
    /\ pc = "idle"
    /\ fn' = f
    /\ status' = s
    /\ interval' = d
    /\ timeout' = t
    /\ timeout0' = t
    /\ mode' = <<>>
    /\ group_id' = "none"
    /\ UNCHANGED <<delVars, orchVars, filterVars>>

\* ------------------------------------- wait_for_vpc/vswitch_status

\* the status is not looked at
StatusInList_anyStatus(observed, target) == TRUE

\* str(x.status) in [status, str(status).lower()]
StatusInList(observed, target) == observed \in {target, Lower(target)}

\* the test of the budget written with < : one fetch too many when the
\* interval divides the timeout
BudgetSpent_strict(remaining) == remaining < 0

\* if timeout <= 0, on the decremented timeout
BudgetSpent(remaining) == remaining <= 0

\* entry of wait_for_vpc_status / wait_for_vswitch_status
DecrementCall(f) ==
    \E s \in Targets, d \in 1..MaxInterval, t \in 0..MaxTimeout :
        /\ Enter(f, s, d, t)
        /\ pc' = "fetch"
        /\ UNCHANGED <<tm, retryVars, sgLocals, outcome, hist, slept>>

\* one evaluation of the loop body up to time.sleep
DecrementFetch(f) ==
    /\ pc = "fetch"
    /\ fn = f
    /\ \E o \in StatusObservations :
        /\ Observe(o)
        /\ IF o.kind = "raise"
           THEN /\ outcome' = RaiseFetch(<<>>)
                /\ pc' = "done"
                /\ UNCHANGED timeout
           ELSE IF o.kind = "status" /\ StatusInList(o.status, status)
           THEN /\ outcome' = Return("True")
                /\ pc' = "done"
                /\ UNCHANGED timeout
           ELSE /\ timeout' = timeout - interval
                /\ IF BudgetSpent(timeout')
                   THEN /\ outcome' = RaiseTimeout(status, timeout')
                        /\ pc' = "done"
                   ELSE /\ outcome' = outcome
                        /\ pc' = "sleep"
    /\ UNCHANGED <<args, delVars, orchVars, filterVars, tm, retryVars, sgLocals, slept>>

\* time.sleep(delay)
DecrementSleep(f) ==
    /\ pc = "sleep"
    /\ fn = f
    /\ SleepFor(interval)
    /\ pc' = "fetch"
    /\ UNCHANGED <<args, delVars, orchVars, filterVars, timeout, tm, retryVars, sgLocals, outcome, hist>>

wait_for_vpc_status_call == DecrementCall("wait_for_vpc_status")
wait_for_vpc_status_fetch == DecrementFetch("wait_for_vpc_status")
wait_for_vpc_status_sleep == DecrementSleep("wait_for_vpc_status")

wait_for_vswitch_status_call == DecrementCall("wait_for_vswitch_status")
wait_for_vswitch_status_fetch == DecrementFetch("wait_for_vswitch_status")
wait_for_vswitch_status_sleep == DecrementSleep("wait_for_vswitch_status")

\* ------------------------- wait_for_eip_status / wait_for_route_entry_status

\* the comparison with only the target lower-cased
LowerEqual_oneSided(observed, target) == Lower(target) = observed

\* str.lower(status) == str.lower(x.status)
LowerEqual(observed, target) == Lower(target) = Lower(observed)

\* while tm < timeout
WithinBudget(t, limit) == t < limit

\* if tm >= timeout
BudgetReached(t, limit) == t >= limit

\* entry of wait_for_eip_status / wait_for_route_entry_status: tm = 0
AccumulateCall(f) ==
    \E s \in Targets, d \in 1..MaxInterval, t \in 0..MaxTimeout :
        /\ Enter(f, s, d, t)
        /\ tm' = 0
        /\ pc' = "fetch"
        /\ UNCHANGED <<retryVars, sgLocals, outcome, hist, slept>>

\* the loop test and one evaluation of the loop body up to time.sleep;
\* missingReturns: an empty fetch ends the call with None (eip) or is
\* polled over (route entry)
AccumulateFetch(f, missingReturns) ==
    /\ pc = "fetch"
    /\ fn = f
    /\ IF ~WithinBudget(tm, timeout)
       THEN /\ outcome' = Return("None")
            /\ pc' = "done"
            /\ UNCHANGED <<tm, hist>>
       ELSE \E o \in StatusObservations :
            /\ Observe(o)
            /\ IF o.kind = "raise"
               THEN /\ outcome' = RaiseFetch(status)
                    /\ pc' = "done"
                    /\ UNCHANGED tm
               ELSE IF o.kind = "notfound" /\ missingReturns
               THEN /\ outcome' = Return("None")
                    /\ pc' = "done"
                    /\ UNCHANGED tm
               ELSE IF o.kind = "status" /\ LowerEqual(o.status, status)
               THEN /\ outcome' = Return("object")
                    /\ pc' = "done"
                    /\ UNCHANGED tm
               ELSE /\ tm' = tm + interval
                    /\ IF BudgetReached(tm', timeout)
                       THEN /\ outcome' = RaiseTimeout(status, timeout)
                            /\ pc' = "done"
                       ELSE /\ outcome' = outcome
                            /\ pc' = "sleep"
    /\ UNCHANGED <<args, delVars, orchVars, filterVars, timeout, retryVars, sgLocals, slept>>

\* time.sleep(interval)
AccumulateSleep(f) ==
    /\ pc = "sleep"
    /\ fn = f
    /\ SleepFor(interval)
    /\ pc' = "fetch"
    /\ UNCHANGED <<args, delVars, orchVars, filterVars, timeout, tm, retryVars, sgLocals, outcome, hist>>

wait_for_eip_status_call == AccumulateCall("wait_for_eip_status")
wait_for_eip_status_fetch == AccumulateFetch("wait_for_eip_status", TRUE)
wait_for_eip_status_sleep == AccumulateSleep("wait_for_eip_status")

wait_for_route_entry_status_call == AccumulateCall("wait_for_route_entry_status")
wait_for_route_entry_status_fetch ==
    AccumulateFetch("wait_for_route_entry_status", FALSE)
wait_for_route_entry_status_sleep == AccumulateSleep("wait_for_route_entry_status")

\* ------------------------------------------------------- retry decorator

\* the functions decorated with @retry(Exception, tries=...)
Decorated ==
    {"wait_for_instance_status", "wait_for_disk_status",
     "verify_join_remove_securitygrp", "delete_object_retry"}

\* every decorated poller sleeping at the head of its loop
BodyStart_sleepFirst(f) == "sleep"

\* where the body of a decorated function starts: the pollers that sleep at
\* the head of their loop start at the sleep
BodyStart(f) == IF f = "wait_for_instance_status" THEN "fetch" ELSE "sleep"

\* f_retry is entered: mtries, mdelay = tries, delay, then f is called
RetryEnter(tries) ==
    /\ mtries' = tries
    /\ mdelay' = RetryDelay
    /\ done' = FALSE
    /\ count' = 0
    /\ pc' = BodyStart(fn')

\* a variant of the loop test that would catch the final call's exception too
Retrying_extra(m) == m > 0

\* while mtries > 1
Retrying(m) == m > 1

\* f raised inside f_retry: caught while mtries > 1 (sleep, count down, back
\* off, call f again), propagated from the final call
f_retry ==
    /\ pc = "raised"
    /\ fn \in Decorated
    /\ IF Retrying(mtries)
       THEN /\ SleepFor(mdelay)
            /\ mtries' = mtries - 1
            /\ mdelay' = mdelay * RetryBackoff
            /\ done' = FALSE
            /\ count' = 0
            /\ pc' = BodyStart(fn)
            /\ UNCHANGED outcome
       ELSE /\ outcome' = IF fn \in {"verify_join_remove_securitygrp",
                                       "delete_object_retry"}
                          THEN RaiseFetch(<<>>) ELSE RaiseBare
            /\ pc' = "done"
            /\ UNCHANGED <<slept, retryVars, sgLocals>>
    /\ UNCHANGED <<args, delVars, orchVars, filterVars, timeout, tm, hist>>

\* ---------------------------------------------- wait_for_instance_status

wait_for_instance_status_call ==
    \E s \in Targets :
        /\ Enter("wait_for_instance_status", s, InstanceInterval, 0)
        /\ RetryEnter(InstanceTries)
        /\ UNCHANGED <<tm, outcome, hist, slept>>

\* instance.status not in [status, str(status).lower()] on the answer o;
\* first: the fetch before the loop, guarded by "if instance"
InstanceCheck(o, first) ==
    IF o.kind = "raise"
    THEN /\ pc' = "raised"
         /\ UNCHANGED outcome
    ELSE IF o.kind = "notfound"
    THEN IF first
         THEN /\ outcome' = Return("None")
              /\ pc' = "done"
         ELSE /\ pc' = "raised"
              /\ UNCHANGED outcome
    ELSE IF StatusInList(o.status, status)
    THEN /\ outcome' = Return("None")
         /\ pc' = "done"
    ELSE /\ pc' = "sleep"
         /\ UNCHANGED outcome

\* instance = self.get_instance_details(instance_id); if instance: while ...
wait_for_instance_status_fetch ==
    /\ pc = "fetch"
    /\ fn = "wait_for_instance_status"
    /\ \E o \in StatusObservations :
        /\ Observe(o)
        /\ InstanceCheck(o, TRUE)
    /\ UNCHANGED <<args, delVars, orchVars, filterVars, timeout, tm, retryVars, sgLocals, slept>>

\* time.sleep(10)
wait_for_instance_status_sleep ==
    /\ pc = "sleep"
    /\ fn = "wait_for_instance_status"
    /\ SleepFor(InstanceInterval)
    /\ pc' = "refetch"
    /\ UNCHANGED <<args, delVars, orchVars, filterVars, timeout, tm, retryVars, sgLocals, outcome, hist>>

\* the fetch inside the loop, and the loop test on its answer
wait_for_instance_status_refetch ==
    /\ pc = "refetch"
    /\ fn = "wait_for_instance_status"
    /\ \E o \in StatusObservations :
        /\ Observe(o)
        /\ InstanceCheck(o, FALSE)
    /\ UNCHANGED <<args, delVars, orchVars, filterVars, timeout, tm, retryVars, sgLocals, slept>>

\* -------------------------------------------------- wait_for_disk_status

\* disk_status == str(disks[0].status).strip().lower()
DiskStatusEqual(observed, target) == target = Lower(Strip(observed))

wait_for_disk_status_call ==
    \E s \in Targets :
        /\ Enter("wait_for_disk_status", s, DiskInterval, 0)
        /\ RetryEnter(DiskTries)
        /\ UNCHANGED <<tm, outcome, hist, slept>>

\* time.sleep(3)
wait_for_disk_status_sleep ==
    /\ pc = "sleep"
    /\ fn = "wait_for_disk_status"
    /\ SleepFor(DiskInterval)
    /\ pc' = "fetch"
    /\ UNCHANGED <<args, delVars, orchVars, filterVars, timeout, tm, retryVars, sgLocals, outcome, hist>>

\* disks = self.get_all_volumes([disk_id]) and the two tests on it
wait_for_disk_status_fetch ==
    /\ pc = "fetch"
    /\ fn = "wait_for_disk_status"
    /\ \E o \in StatusObservations :
        /\ Observe(o)
        /\ IF o.kind = "raise"
           THEN /\ pc' = "raised"
                /\ UNCHANGED outcome
           ELSE IF o.kind = "notfound"
           THEN /\ outcome' = Return("(False, Error)")
                /\ pc' = "done"
           ELSE IF DiskStatusEqual(o.status, status)
           THEN /\ outcome' = Return("(True, None)")
                /\ pc' = "done"
           ELSE /\ pc' = "sleep"
                /\ UNCHANGED outcome
    /\ UNCHANGED <<args, delVars, orchVars, filterVars, timeout, tm, retryVars, sgLocals, slept>>

\* ---------------------------------------- verify_join_remove_securitygrp

verify_join_remove_securitygrp_call ==
    \E m \in Modes, g \in Groups :
        /\ pc = "idle"
        /\ fn' = "verify_join_remove_securitygrp"
        /\ status' = <<>>
        /\ interval' = SecurityGroupInterval
        /\ timeout' = 0
        /\ timeout0' = 0
        /\ mode' = m
        /\ group_id' = g
        /\ UNCHANGED <<delVars, orchVars, filterVars>>
        /\ RetryEnter(SecurityGroupTries)
        /\ UNCHANGED <<tm, outcome, hist, slept>>

\* mode 'join': for inst in instance_list: for grp in ...: if str(grp) ==
\* group_id: done = True; break
JoinScan(l, d) ==
    d \/ \E i \in 1..Len(l) :
            /\ Len(l[i]) > 0
            /\ \E j \in 1..Len(l[i]) : l[i][j] = group_id

\* number of entries of one security_group_id list equal to group_id
Occurrences(groups) == Cardinality({j \in 1..Len(groups) : groups[j] = group_id})

\* mode 'remove': the loop over instance_list from position i on, with the
\* count accumulated so far; count saturates at MaxFetches
RECURSIVE RemoveScan(_, _, _, _)
RemoveScan(l, i, d, c) ==
    IF i > Len(l)
    THEN [done |-> d, count |-> c]
    ELSE IF Len(l[i]) > 0
         THEN LET c2 == Min(c + Occurrences(l[i]), MaxFetches)
              IN  IF c2 = 0
                  THEN [done |-> TRUE, count |-> c2]
                  ELSE RemoveScan(l, i + 1, d, c2)
         ELSE RemoveScan(l, i + 1, d, c)

\* the body of the loop after the fetch: the new (done, count)
Verify(l) ==
    IF Len(l) > 0
    THEN IF Lower(mode) = join
         THEN [done |-> JoinScan(l, done), count |-> count]
         ELSE IF Lower(mode) = remove
         THEN RemoveScan(l, 1, done, count)
         ELSE [done |-> done, count |-> count]
    ELSE [done |-> done, count |-> count]

\* time.sleep(5)
verify_join_remove_securitygrp_sleep ==
    /\ pc = "sleep"
    /\ fn = "verify_join_remove_securitygrp"
    /\ SleepFor(SecurityGroupInterval)
    /\ pc' = "fetch"
    /\ UNCHANGED <<args, delVars, orchVars, filterVars, timeout, tm, retryVars, sgLocals, outcome, hist>>

\* instance_list = self.get_all_instances(...), the scan, the loop test
verify_join_remove_securitygrp_fetch ==
    /\ pc = "fetch"
    /\ fn = "verify_join_remove_securitygrp"
    /\ \E o \in InstanceObservations :
        /\ Observe(o)
        /\ IF o.kind = "raise"
           THEN /\ pc' = "raised"
                /\ UNCHANGED <<outcome, sgLocals>>
           ELSE LET r == Verify(o.instances)
                IN  /\ done' = r.done
                    /\ count' = r.count
                    /\ IF r.done
                       THEN /\ outcome' = Return("True")
                            /\ pc' = "done"
                       ELSE /\ pc' = "sleep"
                            /\ UNCHANGED outcome
    /\ UNCHANGED <<args, delVars, orchVars, filterVars, timeout, tm, retryVars, slept>>

\* ---------------------------------------------------- delete_object_retry

\* what self.get_status(action, params) can do in one attempt: return True
\* or False, raise ServerException with the Initializing code or with
\* another code, raise another exception
DeleteAnswers == {"True", "False", "Initializing", "OtherCode", "Error"}

\* except ServerException as e: the exception is caught here
CaughtInside(a) == a \in {"Initializing", "OtherCode"}

delete_object_retry_call ==
    /\ Enter("delete_object_retry", <<>>, DeleteInterval, 0)
    /\ RetryEnter(DeleteTries)
    /\ UNCHANGED <<tm, outcome, hist, slept>>

\* time.sleep(5)
delete_object_retry_sleep ==
    /\ pc = "sleep"
    /\ fn = "delete_object_retry"
    /\ SleepFor(DeleteInterval)
    /\ pc' = "fetch"
    /\ UNCHANGED <<args, delVars, orchVars, filterVars, timeout, tm, retryVars, sgLocals, outcome,
                   hist>>

\* done = self.get_status(action, params), the except clauses, the loop test
delete_object_retry_attempt ==
    /\ pc = "fetch"
    /\ fn = "delete_object_retry"
    /\ \E a \in DeleteAnswers :
        /\ fetches' = Min(fetches + 1, MaxFetches)
        /\ answer' = a
        /\ sawOther' = (sawOther \/ a # "Initializing")
        /\ sawRaise' = (sawRaise \/ a = "Error")
        /\ IF a = "True"
           THEN /\ done' = TRUE
                /\ outcome' = Return("True")
                /\ pc' = "done"
           ELSE IF a = "False" \/ CaughtInside(a)
           THEN /\ pc' = "sleep"
                /\ UNCHANGED <<done, outcome>>
           ELSE /\ pc' = "raised"
                /\ UNCHANGED <<done, outcome>>
    /\ UNCHANGED <<args, orchVars, filterVars, timeout, tm, retryVars, count, slept, firstExact,
                   firstCI, firstLoose, sawNotFound>>

Next ==
    \/ wait_for_vpc_status_call
    \/ wait_for_vpc_status_fetch
    \/ wait_for_vpc_status_sleep
    \/ wait_for_vswitch_status_call
    \/ wait_for_vswitch_status_fetch
    \/ wait_for_vswitch_status_sleep
    \/ wait_for_eip_status_call
    \/ wait_for_eip_status_fetch
    \/ wait_for_eip_status_sleep
    \/ wait_for_route_entry_status_call
    \/ wait_for_route_entry_status_fetch
    \/ wait_for_route_entry_status_sleep
    \/ f_retry
    \/ wait_for_instance_status_call
    \/ wait_for_instance_status_fetch
    \/ wait_for_instance_status_sleep
    \/ wait_for_instance_status_refetch
    \/ wait_for_disk_status_call
    \/ wait_for_disk_status_sleep
    \/ wait_for_disk_status_fetch
    \/ verify_join_remove_securitygrp_call
    \/ verify_join_remove_securitygrp_sleep
    \/ verify_join_remove_securitygrp_fetch
    \/ delete_object_retry_call
    \/ delete_object_retry_sleep
    \/ delete_object_retry_attempt

Spec == Init /\ [][Next]_vars

\* a call in flight always takes its next step
FairSpec == Spec /\ WF_vars(Next)

\* ============================================================ orchestrators
\* One orchestrator call is in flight at a time.  A step is one provider
\* request, or one call of a poller summarised by the ways that poller can
\* end (return, raise) or go on waiting.  What the provider answers is chosen
\* freely at each step.

\* longest input list, largest count
MaxItems == 2
\* fetches of one wait that are told apart; the count saturates here
MaxPolls == 2
\* DeleteVSwitch requests of one call that are followed
MaxAttempts == 31

ItemIds == {"i-1", "i-2"}
\* provider error codes
Codes == {"IncorrectInstanceStatus", "InvalidInstanceId.NotFound"}

\* what a provider request can raise
Raises == {ServerException(c) : c \in Codes} \cup {OtherException}

Lists(S) == UNION {[1..n -> S] : n \in 0..MaxItems}

\* a list of ids, or one id passed as a string; start_instances and
\* terminate_instances wrap the string in a list
IdInputs ==
    {Input("list", l, 0, FALSE, FALSE, "") : l \in Lists(ItemIds)}
        \cup {Input("string", <<i>>, 0, FALSE, FALSE, "") : i \in ItemIds}

\* entries of a results list
Entry(key, code, k, e) == [key |-> key, code |-> code, item |-> k, error |-> e]
\* {"Error Code": e.error_code, "Error Message": e.message, ...}
CodeEntry(e) == Entry("Error Code", e.code, 0, e)
\* {"Error": e}
ErrorEntry(e) == Entry("Error", "none", 0, e)
\* an entry with a fixed message
MessageEntry(key) == Entry(key, "none", 0, NoException)
\* {"instance_id": instance_id}
IdEntry(k) == Entry("instance_id", "none", k, NoException)

\* both handlers append the bare error
HandlerEntry_noCode(e) == ErrorEntry(e)

\* except ServerException as e: ... except Exception as e: ...
HandlerEntry(e) ==
    IF e.type = "ServerException" THEN CodeEntry(e) ELSE ErrorEntry(e)

\* only provider errors are caught around the steps of an item
Catches_providerOnly(o, e) ==
    /\ o \in {"join_security_group", "leave_security_group", "create_instance"}
    /\ e.type \in {"ServerException", "ECSResponseError"}

\* the steps of an item are inside a try with an except Exception clause
Catches(o, e) ==
    o \in {"join_security_group", "leave_security_group", "create_instance"}

\* a request is issued; a request repeated at once for the same item is
\* listed once
Send(a, k) ==
    sent' = IF sent # <<>> /\ sent[Len(sent)] = [action |-> a, item |-> k]
            THEN sent
            ELSE Append(sent, [action |-> a, item |-> k])

\* a call starts: arguments are bound
OrchEnter(o, in) ==
    /\ opc = "idle"
    /\ op' = o
    /\ input' = in
    /\ item' = 1
    /\ UNCHANGED <<pollVars, filterVars>>

\* the for loop goes to its next item, or ends and the function returns
NextItem(e) ==
    /\ raised' = Append(raised, e)
    /\ item' = item + 1
    /\ polls' = 0
    /\ IF item < Len(input.ids)
       THEN opc' = "loop" /\ UNCHANGED ret
       ELSE opc' = "done" /\ ret' = Returned

\* an exception leaves the function
Propagate(e) ==
    /\ raised' = Append(raised, e)
    /\ ret' = Raised(e)
    /\ opc' = "done"
    /\ UNCHANGED <<item, polls>>

\* a wait goes on waiting
KeepWaiting ==
    /\ polls' = Min(polls + 1, MaxPolls)
    /\ UNCHANGED <<opc, item, ret, raised>>

\* ------------------------------------------------------- start_instances
start_instances_call ==
    \E in \in IdInputs :
        /\ OrchEnter("start_instances", in)
        /\ IF in.ids # <<>>
           THEN opc' = "loop" /\ UNCHANGED ret
           ELSE opc' = "done" /\ ret' = Returned
        /\ UNCHANGED <<sent, results, changed, instances,
                       success_instance_ids, failed_instance_ids, raised,
                       shown, polls, counter, progress, disk>>

\* if self.get_status('StartInstance', params): results.append(instance_id)
start_instances_request ==
    /\ op = "start_instances"
    /\ opc = "loop"
    /\ Send("StartInstance", item)
    /\ \E a \in {Plain("True"), Plain("False")} \cup Raises :
        IF a \in Raises
        THEN /\ Propagate(a)
             /\ UNCHANGED results
        ELSE /\ results' = IF a = Plain("True")
                           THEN Append(results, input.ids[item])
                           ELSE results
             /\ NextItem(NoException)
    /\ UNCHANGED <<pollVars, filterVars, op, input, changed, instances,
                   success_instance_ids, failed_instance_ids, shown, counter,
                   progress, disk>>

\* --------------------------------------------------- terminate_instances
\* delete_object_retry ends with a true value, ends with the exception
\* that is not a ServerException once its tries are used up, or goes on
\* retrying
DeleteOutcomes == {Plain("True"), Plain("retrying"), OtherException}

terminate_instances_call ==
    \E in \in IdInputs :
        /\ OrchEnter("terminate_instances", in)
        /\ IF in.ids # <<>>
           THEN opc' = "loop" /\ UNCHANGED ret
           ELSE opc' = "done" /\ ret' = Returned
        /\ UNCHANGED <<sent, results, changed, instances,
                       success_instance_ids, failed_instance_ids, raised,
                       shown, polls, counter, progress, disk>>

\* if self.delete_object_retry('DeleteInstance', params): result.append(...)
terminate_instances_delete ==
    /\ op = "terminate_instances"
    /\ opc = "loop"
    /\ Send("DeleteInstance", item)
    /\ \E a \in DeleteOutcomes :
        IF a = Plain("retrying")
        THEN /\ KeepWaiting
             /\ UNCHANGED results
        ELSE IF a = Plain("True")
        THEN /\ results' = Append(results, input.ids[item])
             /\ NextItem(NoException)
        ELSE /\ Propagate(a)
             /\ UNCHANGED results
    /\ UNCHANGED <<pollVars, filterVars, op, input, changed, instances,
                   success_instance_ids, failed_instance_ids, shown, counter,
                   progress, disk>>

\* ------------------------------------------------- delete_security_group
delete_security_group_call ==
    \E l \in Lists({"sg-1", ""}) :
        /\ OrchEnter("delete_security_group",
                     Input("list", l, 0, FALSE, FALSE, ""))
        /\ IF l # <<>>
           THEN opc' = "loop" /\ UNCHANGED ret
           ELSE opc' = "done" /\ ret' = Returned
        /\ UNCHANGED <<sent, results, changed, instances,
                       success_instance_ids, failed_instance_ids, raised,
                       shown, polls, counter, progress, disk>>

\* if group_id: get_status('DeleteSecurityGroup', params);
\*              results.append(group_id)
delete_security_group_request ==
    /\ op = "delete_security_group"
    /\ opc = "loop"
    /\ IF input.ids[item] = ""
       THEN /\ NextItem(NoException)
            /\ UNCHANGED <<sent, results>>
       ELSE /\ Send("DeleteSecurityGroup", item)
            /\ \E a \in {Plain("True"), Plain("False")} \cup Raises :
                IF a \in Raises
                THEN /\ Propagate(a)
                     /\ UNCHANGED results
                ELSE /\ results' = Append(results, input.ids[item])
                     /\ NextItem(NoException)
    /\ UNCHANGED <<pollVars, filterVars, op, input, changed, instances,
                   success_instance_ids, failed_instance_ids, shown, counter,
                   progress, disk>>

\* ------------------------------ join_security_group / leave_security_group
\* verify_join_remove_securitygrp ends with True, raises the exception of
\* its last try, or goes on waiting
VerifyOutcomes == {Plain("True"), Plain("waiting")} \cup Raises

\* one id passed as a string is taken for a list of one id
IsList_orString(in) == in.kind \in {"list", "string"}

\* isinstance(instance_ids, list)
IsList(in) == in.kind = "list"

SecurityGroupCall(o) ==
    \E in \in IdInputs :
        /\ OrchEnter(o, in)
        /\ IF ~IsList(in)
           THEN /\ results' = <<MessageEntry("Error Message")>>
                /\ opc' = "done"
                /\ ret' = Returned
           ELSE /\ UNCHANGED results
                /\ IF in.ids # <<>>
                   THEN opc' = "loop" /\ UNCHANGED ret
                   ELSE opc' = "done" /\ ret' = Returned
        /\ UNCHANGED <<sent, changed, instances, success_instance_ids,
                       failed_instance_ids, raised, shown, polls, counter,
                       progress, disk>>

\* an exception raised in the try block of an item
SecurityGroupFailed(o, e) ==
    IF Catches(o, e)
    THEN /\ failed_instance_ids' = Append(failed_instance_ids, input.ids[item])
         /\ results' = Append(results, HandlerEntry(e))
         /\ NextItem(e)
         /\ UNCHANGED <<changed, success_instance_ids>>
    ELSE /\ Propagate(e)
         /\ UNCHANGED <<results, changed, success_instance_ids,
                        failed_instance_ids>>

\* self.get_status('JoinSecurityGroup' / 'LeaveSecurityGroup', params)
SecurityGroupRequest(o, action) ==
    /\ op = o
    /\ opc = "loop"
    /\ Send(action, item)
    /\ \E a \in {Plain("True"), Plain("False")} \cup Raises :
        IF a \in Raises
        THEN SecurityGroupFailed(o, a)
        ELSE /\ opc' = "verify"
             /\ UNCHANGED <<item, ret, raised, polls, results, changed,
                            success_instance_ids, failed_instance_ids>>
    /\ UNCHANGED <<pollVars, filterVars, op, input, instances, shown, counter, progress,
                   disk>>

\* changed = self.verify_join_remove_securitygrp(inst, group_id, mode)
\* if changed: success_instance_ids.append(inst)
SecurityGroupVerify(o) ==
    /\ op = o
    /\ opc = "verify"
    /\ \E a \in VerifyOutcomes :
        IF a = Plain("waiting")
        THEN /\ KeepWaiting
             /\ UNCHANGED <<results, changed, success_instance_ids,
                            failed_instance_ids>>
        ELSE IF a \in Raises
        THEN SecurityGroupFailed(o, a)
        ELSE /\ changed' = TRUE
             /\ success_instance_ids' =
                    Append(success_instance_ids, input.ids[item])
             /\ NextItem(NoException)
             /\ UNCHANGED <<results, failed_instance_ids>>
    /\ UNCHANGED <<pollVars, filterVars, op, input, sent, instances, shown, counter,
                   progress, disk>>

\* ------------------------------------------------------- create_instance
\* for i in range(count): ids holds one place per instance to create
CreateInputs ==
    {Input("count", [k \in 1..n |-> ""], n, a, b, "") :
        n \in 0..MaxItems, a \in BOOLEAN, b \in BOOLEAN}

\* what a step of create_instance can raise
CreateRaises == Raises \cup {ECSResponseError(c) : c \in Codes}

\* wait_for_instance_status returns None after a fetch that showed the
\* status, returns None because its first fetch found no instance, raises
\* the bare Exception once its tries are used up, or goes on waiting
WaitOutcomes ==
    {Plain("matched"), Plain("missing"), Plain("waiting"), OtherException}

\* except ECSResponseError as e: ... except Exception as e: ...
CreateHandlerEntry(e) ==
    IF e.type = "ECSResponseError" THEN CodeEntry(e) ELSE ErrorEntry(e)

\* an exception raised in the try block of an item
CreateFailed(e) ==
    IF Catches("create_instance", e)
    THEN /\ results' = Append(results, CreateHandlerEntry(e))
         /\ NextItem(e)
    ELSE /\ Propagate(e)
         /\ UNCHANGED results

\* the step after the wait for Stopped
AfterStopped ==
    IF input.allocate_public_ip THEN "AllocatePublicIpAddress"
    ELSE IF input.bind_eip THEN "AssociateEipAddress"
    ELSE "StartInstance"

\* the step after AllocatePublicIpAddress
AfterAllocate ==
    IF input.bind_eip THEN "AssociateEipAddress" ELSE "StartInstance"

create_instance_call ==
    \E in \in CreateInputs :
        /\ OrchEnter("create_instance", in)
        /\ IF in.count > 0
           THEN opc' = "loop" /\ UNCHANGED ret
           ELSE opc' = "done" /\ ret' = Returned
        /\ UNCHANGED <<sent, results, changed, instances,
                       success_instance_ids, failed_instance_ids, raised,
                       shown, polls, counter, progress, disk>>

\* result = self.get_object('CreateInstance', params, ResultSet)
\* results.append({"instance_id": instance_id}); changed = True
create_instance_create ==
    /\ op = "create_instance"
    /\ opc = "loop"
    /\ Send("CreateInstance", item)
    /\ \E a \in {Plain("object")} \cup CreateRaises :
        IF a \in CreateRaises
        THEN /\ CreateFailed(a)
             /\ UNCHANGED changed
        ELSE /\ results' = Append(results, IdEntry(item))
             /\ changed' = TRUE
             /\ opc' = "wait_stopped"
             /\ UNCHANGED <<item, ret, raised, polls>>
    /\ UNCHANGED <<pollVars, filterVars, op, input, instances, success_instance_ids,
                   failed_instance_ids, shown, counter, progress, disk>>

\* self.wait_for_instance_status(instance_id, target)
CreateWait(at, target, next) ==
    /\ op = "create_instance"
    /\ opc = at
    /\ \E a \in WaitOutcomes :
        IF a = Plain("waiting")
        THEN /\ KeepWaiting
             /\ UNCHANGED <<results, shown>>
        ELSE IF a = OtherException
        THEN /\ CreateFailed(a)
             /\ UNCHANGED shown
        ELSE /\ shown' = IF a = Plain("matched")
                         THEN shown \cup {<<item, target>>}
                         ELSE shown
             /\ opc' = next
             /\ polls' = 0
             /\ UNCHANGED <<item, ret, raised, results>>
    /\ UNCHANGED <<pollVars, filterVars, op, input, sent, changed, instances,
                   success_instance_ids, failed_instance_ids, counter,
                   progress, disk>>

\* a request whose answer is not used: AllocatePublicIpAddress,
\* AssociateEipAddress, and StartInstance through self.start_instances
CreateRequest(at, action, next) ==
    /\ op = "create_instance"
    /\ opc = at
    /\ Send(action, item)
    /\ \E a \in {Plain("True"), Plain("False")} \cup Raises :
        IF a \in Raises
        THEN CreateFailed(a)
        ELSE /\ opc' = next
             /\ UNCHANGED <<item, ret, raised, polls, results>>
    /\ UNCHANGED <<pollVars, filterVars, op, input, changed, instances,
                   success_instance_ids, failed_instance_ids, shown, counter,
                   progress, disk>>

\* instances.append(self.get_instance_details(instance_id))
create_instance_details ==
    /\ op = "create_instance"
    /\ opc = "details"
    /\ \E a \in {Plain(s) : s \in {"Stopped", "Starting", "Running", "None"}}
                    \cup CreateRaises :
        IF a \in CreateRaises
        THEN /\ CreateFailed(a)
             /\ UNCHANGED <<instances, shown>>
        ELSE /\ instances' = Append(instances, [item |-> item, status |-> a.type])
             /\ shown' = shown \cup {<<item, a.type>>}
             /\ NextItem(NoException)
             /\ UNCHANGED results
    /\ UNCHANGED <<pollVars, filterVars, op, input, sent, changed, success_instance_ids,
                   failed_instance_ids, counter, progress, disk>>

\* ------------------------------------------------ attach_disk / detach_disk
\* the disks get_all_volumes may answer
Disks ==
    {[found |-> TRUE, status |-> s, instance_id |-> i, portable |-> p] :
        s \in Reported,
        i \in {Py("NoneType", "None"), Py("str", ""), Py("str", "i-1")},
        p \in {Py("bool", "True"), Py("bool", "False")}}

\* str(x)
Str(x) == x.repr

\* truth value of a str
Truthy(s) == s # ""

\* the gate refuses a disk in use only
AttachGate_inUseOnly(disk_status) ==
    disk_status # <<>> /\ Lower(Strip(disk_status)) = in_use

\* if disk_status and str(disk_status).strip().lower() != "available"
AttachGate(disk_status) ==
    disk_status # <<>> /\ Lower(Strip(disk_status)) # available

\* if not disk_portable, on disk_portable = str(disk.portable)
PortableGate(d) == ~Truthy(Str(d.portable))

\* if not instance_id, on instance_id = str(disk.instance_id)
AttachedGate(d) == ~Truthy(Str(d.instance_id))

\* wait_for_disk_status returns (True, None), returns (False, {"Error"})
\* when the disk is not found, raises the bare Exception once its tries are
\* used up, or goes on waiting
DiskWaitOutcomes ==
    {Plain("(True, None)"), Plain("(False, Error)"), Plain("waiting"),
     OtherException}

\* the function returns
Return_ ==
    /\ opc' = "done"
    /\ ret' = Returned

\* if not instance_id: results.append({"Error": ...}); return changed, results
attach_disk_call ==
    \E i \in {"i-1", ""} :
        /\ OrchEnter("attach_disk",
                     Input("disk", <<"d-1">>, 0, FALSE, FALSE, i))
        /\ IF ~Truthy(i)
           THEN /\ results' = <<MessageEntry("Error")>>
                /\ Return_
           ELSE /\ opc' = "retrieve"
                /\ UNCHANGED <<results, ret>>
        /\ UNCHANGED <<sent, changed, instances, success_instance_ids,
                       failed_instance_ids, raised, shown, polls, counter,
                       progress, disk>>

detach_disk_call ==
    /\ OrchEnter("detach_disk", Input("disk", <<"d-1">>, 0, FALSE, FALSE, ""))
    /\ opc' = "retrieve"
    /\ UNCHANGED <<sent, results, changed, instances, success_instance_ids,
                   failed_instance_ids, ret, raised, shown, polls, counter,
                   progress, disk>>

\* the tests of the caller on what retrieve_instance_for_disk returned for
\* a disk it found
DiskGates(d) ==
    IF op = "attach_disk"
    THEN IF AttachGate(d.status)
         THEN /\ results' = <<MessageEntry("Error")>>
              /\ Return_
         ELSE /\ opc' = "request"
              /\ UNCHANGED <<results, ret>>
    ELSE IF PortableGate(d) \/ AttachedGate(d)
         THEN /\ results' = <<MessageEntry("Error Message")>>
              /\ Return_
         ELSE /\ opc' = "request"
              /\ UNCHANGED <<results, ret>>

\* retrieve_instance_for_disk(disk_id) and the unpacking of its result
retrieve_instance_for_disk ==
    /\ op \in {"attach_disk", "detach_disk"}
    /\ opc = "retrieve"
    /\ \E a \in {Plain("found"), Plain("notfound")} \cup Raises :
        IF a = Plain("found")
        THEN \E d \in Disks :
                /\ disk' = d
                /\ DiskGates(d)
        ELSE IF a = Plain("notfound")
        THEN /\ opc' = "done"
             /\ ret' = Raised(Plain("ValueError"))
             /\ UNCHANGED <<results, disk>>
        ELSE IF a.type = "ServerException"
        THEN /\ results' = <<CodeEntry(a)>>
             /\ Return_
             /\ UNCHANGED disk
        ELSE /\ opc' = "done"
             /\ ret' = Raised(Plain("AttributeError"))
             /\ UNCHANGED <<results, disk>>
    /\ UNCHANGED <<pollVars, filterVars, op, input, item, sent, changed, instances,
                   success_instance_ids, failed_instance_ids, raised, shown,
                   polls, counter, progress>>

\* if self.get_status(action, params): ... and the except clauses
DiskRequest(o, action) ==
    /\ op = o
    /\ opc = "request"
    /\ Send(action, 1)
    /\ \E a \in {Plain("True"), Plain("False")} \cup Raises :
        IF a \in Raises
        THEN /\ results' = Append(results, HandlerEntry(a))
             /\ Return_
        ELSE IF a = Plain("True")
        THEN /\ opc' = "wait"
             /\ UNCHANGED <<results, ret>>
        ELSE /\ Return_
             /\ UNCHANGED results
    /\ UNCHANGED <<pollVars, filterVars, op, input, item, changed, instances,
                   success_instance_ids, failed_instance_ids, raised, shown,
                   polls, counter, progress, disk>>

\* changed, result = self.wait_for_disk_status(...)
\* if not changed: results.append(result)
DiskWait(o) ==
    /\ op = o
    /\ opc = "wait"
    /\ \E a \in DiskWaitOutcomes :
        IF a = Plain("waiting")
        THEN /\ polls' = Min(polls + 1, MaxPolls)
             /\ UNCHANGED <<opc, ret, results, changed>>
        ELSE IF a = Plain("(True, None)")
        THEN /\ changed' = TRUE
             /\ Return_
             /\ UNCHANGED <<results, polls>>
        ELSE IF a = Plain("(False, Error)")
        THEN /\ results' = Append(results, MessageEntry("Error"))
             /\ Return_
             /\ UNCHANGED <<changed, polls>>
        ELSE /\ results' = Append(results, HandlerEntry(a))
             /\ Return_
             /\ UNCHANGED <<changed, polls>>
    /\ UNCHANGED <<pollVars, filterVars, op, input, item, sent, instances,
                   success_instance_ids, failed_instance_ids, raised, shown,
                   counter, progress, disk>>

\* ---------------------------------------------------- get_snapshot_image
SnapshotTries == 20

\* the text looked for in the Progress field
Full == <<"1","0","0","%">>

\* needle in hay
Contains(needle, hay) ==
    \E i \in 1..(Len(hay) - Len(needle) + 1) :
        SubSeq(hay, i, i + Len(needle) - 1) = needle

get_snapshot_image_call ==
    /\ OrchEnter("get_snapshot_image",
                 Input("list", <<"s-1">>, 0, FALSE, FALSE, ""))
    /\ opc' = "loop"
    /\ UNCHANGED <<sent, results, changed, instances, success_instance_ids,
                   failed_instance_ids, ret, raised, shown, polls, counter,
                   progress, disk>>

\* one evaluation of the body of while changed == False
get_snapshot_image_poll ==
    /\ op = "get_snapshot_image"
    /\ opc = "loop"
    /\ IF counter > SnapshotTries
       THEN /\ Return_
            /\ UNCHANGED <<sent, counter, results, progress, changed>>
       ELSE /\ Send("DescribeSnapshots", 1)
            /\ counter' = counter + 1
            /\ \E a \in {Plain("found"), Plain("notfound")} \cup Raises :
                IF a = Plain("found")
                THEN \E p \in {<<"5","0","%">>, Full} :
                        IF ~Contains(Full, p)
                        THEN /\ progress' = p
                             /\ UNCHANGED <<opc, ret, results, changed>>
                        ELSE /\ changed' = TRUE
                             /\ progress' = <<"1","0","0">>
                             /\ Return_
                             /\ UNCHANGED results
                ELSE IF a = Plain("notfound")
                THEN /\ results' = Append(results,
                            Entry("Error Code", "Invalid.SnapshotId", 0,
                                  NoException))
                     /\ Return_
                     /\ UNCHANGED <<progress, changed>>
                ELSE /\ results' = Append(results, HandlerEntry(a))
                     /\ Return_
                     /\ UNCHANGED <<progress, changed>>
    /\ UNCHANGED <<pollVars, filterVars, op, input, item, instances,
                   success_instance_ids, failed_instance_ids, raised, shown,
                   polls, disk>>

\* ---------------------------------------- stop_instances / reboot_instances
StopRebootCall(o) ==
    \E in \in IdInputs :
        /\ OrchEnter(o, in)
        /\ IF in.ids # <<>>
           THEN opc' = "loop" /\ UNCHANGED ret
           ELSE opc' = "done" /\ ret' = Returned
        /\ UNCHANGED <<sent, results, changed, instances,
                       success_instance_ids, failed_instance_ids, raised,
                       shown, polls, counter, progress, disk>>

\* the first loop: self.get_status('StopInstance' / 'RebootInstance', params)
\* for every id; the second loop starts at the first id again
StopRebootRequest(o, action) ==
    /\ op = o
    /\ opc = "loop"
    /\ Send(action, item)
    /\ \E a \in {Plain("True"), Plain("False")} \cup Raises :
        IF a \in Raises
        THEN Propagate(a)
        ELSE /\ item' = IF item < Len(input.ids) THEN item + 1 ELSE 1
             /\ opc' = IF item < Len(input.ids) THEN "loop" ELSE "wait"
             /\ UNCHANGED <<ret, raised, polls>>
    /\ UNCHANGED <<pollVars, filterVars, op, input, results, changed, instances,
                   success_instance_ids, failed_instance_ids, shown, counter,
                   progress, disk>>

\* the second loop:
\* if self.wait_for_instance_status(instance_id, target): results.append(...)
\* where what the wait returns is None
StopRebootWait(o, target) ==
    /\ op = o
    /\ opc = "wait"
    /\ \E a \in WaitOutcomes :
        IF a = Plain("waiting")
        THEN /\ KeepWaiting
             /\ UNCHANGED shown
        ELSE IF a = OtherException
        THEN /\ Propagate(a)
             /\ UNCHANGED shown
        ELSE /\ shown' = IF a = Plain("matched")
                         THEN shown \cup {<<item, target>>}
                         ELSE shown
             /\ raised' = Append(raised, NoException)
             /\ item' = item + 1
             /\ polls' = 0
             /\ IF item < Len(input.ids)
                THEN UNCHANGED <<opc, ret>>
                ELSE opc' = "done" /\ ret' = Returned
    /\ UNCHANGED <<pollVars, filterVars, op, input, sent, results, changed, instances,
                   success_instance_ids, failed_instance_ids, counter,
                   progress, disk>>

\* ----------------------------------------- associate_eip / disassociate_eip
\* The boolean the function returns is kept in changed.

EipCall(o) ==
    /\ OrchEnter(o, Input("eip", <<"eip-1">>, 0, FALSE, FALSE, "i-1"))
    /\ opc' = "request"
    /\ UNCHANGED <<sent, results, changed, instances, success_instance_ids,
                   failed_instance_ids, ret, raised, shown, polls, counter,
                   progress, disk>>

\* self.get_status('AssociateEipAddress' / 'UnassociateEipAddress', params):
\* what it returns is dropped
EipRequest(o, action) ==
    /\ op = o
    /\ opc = "request"
    /\ Send(action, 1)
    /\ \E a \in {Plain("True"), Plain("False")} \cup Raises :
        IF a \in Raises
        THEN Propagate(a)
        ELSE /\ opc' = "wait"
             /\ UNCHANGED <<item, ret, raised, polls>>
    /\ UNCHANGED <<pollVars, filterVars, op, input, results, changed,
                   instances, success_instance_ids, failed_instance_ids,
                   shown, counter, progress, disk>>

\* return self.wait_for_eip_status(allocation_id, target, 2, 60) is None:
\* the wait returns eips[0] after a fetch that showed the status, None when
\* a fetch listed no EIP, raises on a timeout or an error of the fetch
EipWait(o, target) ==
    /\ op = o
    /\ opc = "wait"
    /\ \E a \in WaitOutcomes :
        IF a = Plain("waiting")
        THEN /\ KeepWaiting
             /\ UNCHANGED <<shown, changed>>
        ELSE IF a = OtherException
        THEN /\ Propagate(a)
             /\ UNCHANGED <<shown, changed>>
        ELSE /\ shown' = IF a = Plain("matched")
                         THEN shown \cup {<<item, target>>}
                         ELSE shown
             /\ changed' = (a = Plain("missing"))
             /\ Return_
             /\ UNCHANGED <<item, raised, polls>>
    /\ UNCHANGED <<pollVars, filterVars, op, input, sent, results, instances,
                   success_instance_ids, failed_instance_ids, counter,
                   progress, disk>>

\* ------------------------------------------------------------- release_eip
\* counter is try_times; the boolean the function returns is kept in
\* changed; sent lists every request, fetch and sleep of the call with the
\* number of the try, shown what each fetch answered.

\* try_times = 10
ReleaseTries == 10
\* time.sleep(3)
ReleaseInterval == 3

\* one more try is made
TriesLeft_oneMore(try_times) == try_times >= 0

\* while try_times > 0
TriesLeft(try_times) == try_times > 0

release_eip_call ==
    /\ OrchEnter("release_eip", Input("eip", <<"eip-1">>, 0, FALSE, FALSE, ""))
    /\ counter' = ReleaseTries
    /\ opc' = "request"
    /\ UNCHANGED <<sent, results, changed, instances, success_instance_ids,
                   failed_instance_ids, ret, raised, shown, polls, progress,
                   disk>>

\* self.get_status('ReleaseEipAddress', params): what it returns is dropped
release_eip_request ==
    /\ op = "release_eip"
    /\ opc = "request"
    /\ sent' = Append(sent, [action |-> "ReleaseEipAddress",
                             item |-> ReleaseTries - counter + 1])
    /\ \E a \in {Plain("True"), Plain("False")} \cup Raises :
        IF a \in Raises
        THEN Propagate(a)
        ELSE /\ opc' = "fetch"
             /\ UNCHANGED <<item, ret, raised, polls>>
    /\ UNCHANGED <<pollVars, filterVars, op, input, results, changed,
                   instances, success_instance_ids, failed_instance_ids,
                   shown, counter, progress, disk>>

\* eips = self.get_all_eip_addresses(...); if not eips or len(eips) < 1:
\* return True; time.sleep(3); try_times -= 1; the loop test; the raise
release_eip_fetch ==
    /\ op = "release_eip"
    /\ opc = "fetch"
    /\ LET try == ReleaseTries - counter + 1
           fetched == Append(sent, [action |-> "DescribeEipAddresses",
                                    item |-> try])
       IN \E a \in {Plain("listed"), Plain("unlisted")} \cup Raises :
            IF a \in Raises
            THEN /\ sent' = fetched
                 /\ Propagate(a)
                 /\ UNCHANGED <<shown, changed, counter>>
            ELSE IF a = Plain("unlisted")
            THEN /\ sent' = fetched
                 /\ shown' = shown \cup {<<try, "unlisted">>}
                 /\ changed' = TRUE
                 /\ Return_
                 /\ UNCHANGED <<item, raised, polls, counter>>
            ELSE /\ sent' = Append(fetched, [action |-> "sleep",
                                             item |-> ReleaseInterval])
                 /\ shown' = shown \cup {<<try, "listed">>}
                 /\ counter' = counter - 1
                 /\ IF TriesLeft(counter')
                    THEN /\ opc' = "request"
                         /\ UNCHANGED <<item, ret, raised, polls>>
                    ELSE Propagate([type |-> "Exception",
                                    code |-> "Retry 10 times"])
                 /\ UNCHANGED changed
    /\ UNCHANGED <<pollVars, filterVars, op, input, results, instances,
                   success_instance_ids, failed_instance_ids, progress, disk>>

\* ------------------------------------------------------------- create_disk
create_disk_call ==
    /\ OrchEnter("create_disk", Input("zone", <<"z-1">>, 0, FALSE, FALSE, ""))
    /\ opc' = "request"
    /\ UNCHANGED <<sent, results, changed, instances, success_instance_ids,
                   failed_instance_ids, ret, raised, shown, polls, counter,
                   progress, disk>>

\* the try block around rs = self.get_object('CreateDisk', params,
\* ResultSet), then return changed, str(rs.disk_id), results: rs is bound
\* by the assignment alone
create_disk_request ==
    /\ op = "create_disk"
    /\ opc = "request"
    /\ Send("CreateDisk", 1)
    /\ \E a \in {Plain("ResultSet")} \cup Raises :
        IF a \in Raises
        THEN /\ results' = Append(results,
                                  IF a.type = "ServerException"
                                  THEN CodeEntry(a)
                                  ELSE Entry("Error:", "none", 0, a))
             /\ raised' = Append(raised, a)
             /\ ret' = Raised(Plain("UnboundLocalError"))
             /\ opc' = "done"
             /\ UNCHANGED <<changed, disk>>
        ELSE /\ results' = Append(results,
                                  MessageEntry("Disk Creation Successful"))
             /\ changed' = TRUE
             /\ disk' = [NoDisk EXCEPT !.found = TRUE]
             /\ Return_
             /\ UNCHANGED raised
    /\ UNCHANGED <<pollVars, filterVars, op, input, item, instances,
                   success_instance_ids, failed_instance_ids, shown, polls,
                   counter, progress>>

\* ------------------------------------------------------------- delete_disk
\* shown holds what the fetch answered and whether an attempt of the delete
\* reported success.

\* the delete is issued whatever the fetch listed
DiskListed_always(n) == TRUE

\* if len(disk_list) > 0
DiskListed(n) == n > 0

delete_disk_call ==
    /\ OrchEnter("delete_disk", Input("disk", <<"d-1">>, 0, FALSE, FALSE, ""))
    /\ opc' = "fetch"
    /\ UNCHANGED <<sent, results, changed, instances, success_instance_ids,
                   failed_instance_ids, ret, raised, shown, polls, counter,
                   progress, disk>>

\* disk_list = self.get_all_volumes(volume_ids=[disk_id]), the test on its
\* length, the else branch and the except clauses
delete_disk_fetch ==
    /\ op = "delete_disk"
    /\ opc = "fetch"
    /\ Send("DescribeDisks", 1)
    /\ \E a \in {Plain("listed"), Plain("unlisted")} \cup Raises :
        IF a \in Raises
        THEN /\ results' = Append(results, HandlerEntry(a))
             /\ raised' = Append(raised, a)
             /\ Return_
             /\ UNCHANGED shown
        ELSE /\ shown' = shown \cup {<<1, a.type>>}
             /\ IF DiskListed(IF a = Plain("listed") THEN 1 ELSE 0)
                THEN /\ opc' = "delete"
                     /\ UNCHANGED <<results, ret, raised>>
                ELSE /\ results' = Append(results,
                                          MessageEntry("Error Message"))
                     /\ Return_
                     /\ UNCHANGED raised
    /\ UNCHANGED <<pollVars, filterVars, op, input, item, changed, instances,
                   success_instance_ids, failed_instance_ids, polls, counter,
                   progress, disk>>

\* changed = self.delete_object_retry('DeleteDisk', params): an attempt
\* answers True and the call returns it, or answers False or a
\* ServerException and the call goes on, or raises another exception, which
\* leaves delete_object_retry once its tries are used up and is caught here
delete_disk_delete ==
    /\ op = "delete_disk"
    /\ opc = "delete"
    /\ Send("DeleteDisk", 1)
    /\ \E a \in {Plain("True"), Plain("waiting"), OtherException} :
        IF a = Plain("waiting")
        THEN /\ polls' = Min(polls + 1, MaxPolls)
             /\ UNCHANGED <<opc, ret, raised, results, changed, shown>>
        ELSE IF a = Plain("True")
        THEN /\ changed' = TRUE
             /\ shown' = shown \cup {<<1, "deleted">>}
             /\ Return_
             /\ UNCHANGED <<raised, results, polls>>
        ELSE /\ results' = Append(results, HandlerEntry(a))
             /\ raised' = Append(raised, a)
             /\ Return_
             /\ UNCHANGED <<changed, shown, polls>>
    /\ UNCHANGED <<pollVars, filterVars, op, input, item, instances,
                   success_instance_ids, failed_instance_ids, counter,
                   progress, disk>>

\* ------------------------------------------------ authorize_security_group
\* input.ids are the inbound rules and input.count the number of outbound
\* rules; progress is what is left of rule_types, item the rule at hand,
\* counter success_rule_count; instances and failed_instance_ids hold
\* inbound_failed_rules and outbound_failed_rules, results result_details;
\* raised lists what each request answered, in the order of sent.

authorize_security_group_call ==
    \E in \in Lists(ItemIds), out \in 0..MaxItems :
        /\ OrchEnter("authorize_security_group",
                     Input("rules", in, out, FALSE, FALSE, ""))
        /\ progress' = (IF in # <<>> THEN <<"inbound">> ELSE <<>>)
                            \o (IF out > 0 THEN <<"outbound">> ELSE <<>>)
        /\ IF progress' # <<>>
           THEN opc' = "loop" /\ UNCHANGED ret
           ELSE Return_
        /\ UNCHANGED <<sent, results, changed, instances,
                       success_instance_ids, failed_instance_ids, raised,
                       shown, polls, counter, disk>>

\* the body of `for rule in rules`: the request in its try block, the
\* handler reading ex.error_code, and after the last rule of the direction
\* the test success_rule_count == total_rules
authorize_security_group_rule ==
    /\ op = "authorize_security_group"
    /\ opc = "loop"
    /\ LET rule_type == Head(progress)
           total_rules == IF rule_type = "inbound"
                          THEN Len(input.ids) ELSE input.count
       IN
       /\ sent' = Append(sent, [action |-> rule_type, item |-> item])
       /\ \E a \in {Plain("True"), Plain("False")} \cup Raises :
            /\ raised' = Append(raised, a)
            /\ IF a = OtherException
               THEN /\ ret' = Raised(Plain("AttributeError"))
                    /\ opc' = "done"
                    /\ UNCHANGED <<item, counter, progress, results,
                                   instances, failed_instance_ids>>
               ELSE LET failed == a \in Raises
                        succeeded == IF a = Plain("True")
                                     THEN counter + 1 ELSE counter
                        details == IF failed
                                   THEN Append(results,
                                            Entry(rule_type, "failed", item, a))
                                   ELSE results
                    IN
                    /\ instances' = IF failed /\ rule_type = "inbound"
                                    THEN Append(instances, item)
                                    ELSE instances
                    /\ failed_instance_ids' =
                            IF failed /\ rule_type = "outbound"
                            THEN Append(failed_instance_ids, item)
                            ELSE failed_instance_ids
                    /\ IF item < total_rules
                       THEN /\ item' = item + 1
                            /\ counter' = succeeded
                            /\ results' = details
                            /\ UNCHANGED <<progress, opc, ret>>
                       ELSE /\ item' = 1
                            /\ counter' = 0
                            /\ results' =
                                    IF succeeded = total_rules
                                    THEN Append(details,
                                            Entry(rule_type, "successful", 0,
                                                  NoException))
                                    ELSE details
                            /\ progress' = Tail(progress)
                            /\ IF Tail(progress) = <<>>
                               THEN Return_
                               ELSE UNCHANGED <<opc, ret>>
    /\ UNCHANGED <<pollVars, filterVars, op, input, changed,
                   success_instance_ids, shown, polls, disk>>

\* ----------------------------------------------------------- create_image
\* a snapshot that is not ready is let through
NotReady_ignored(snapshot_changed) == FALSE

\* if not snapshot_changed
NotReady(snapshot_changed) == ~snapshot_changed

\* the next snapshot to poll, or the CreateImage request
NextSnapshot ==
    /\ item' = item + 1
    /\ counter' = 0
    /\ opc' = IF item < Len(input.ids) THEN "loop" ELSE "request"
    /\ UNCHANGED ret

\* get_snapshot_image returned (snapshot_results, progress,
\* snapshot_changed) after c requests: the tests of create_image on it.
\* 'error code' in str(snapshot_results).lower(): the key "Error Code" has
\* it, the key "Error:" has not
SnapshotGates(snapshot_results, snapshot_changed, c) ==
    IF \E j \in 1..Len(snapshot_results) :
            snapshot_results[j].key = "Error Code"
    THEN /\ results' = snapshot_results
         /\ counter' = c
         /\ Return_
         /\ UNCHANGED item
    ELSE IF NotReady(snapshot_changed)
    THEN /\ results' = Append(results,
                Entry("Error Code", "Snapshot.NotReady", 0, NoException))
         /\ counter' = c
         /\ Return_
         /\ UNCHANGED item
    ELSE /\ NextSnapshot
         /\ UNCHANGED results

\* ids: the snapshot_id argument, then the snapshot_id of each disk_mapping
\* entry, "" where there is none
create_image_call ==
    \E a \in {"s-1", ""}, l \in Lists({"s-1", ""}) :
        /\ OrchEnter("create_image",
                     Input("image", <<a>> \o l, 0, FALSE, FALSE, ""))
        /\ opc' = "loop"
        /\ UNCHANGED <<sent, results, changed, instances,
                       success_instance_ids, failed_instance_ids, ret, raised,
                       shown, polls, counter, progress, disk>>

\* one evaluation of the loop body of get_snapshot_image called for the
\* snapshot at item, and the tests of create_image when it returns
create_image_poll ==
    /\ op = "create_image"
    /\ opc = "loop"
    /\ IF input.ids[item] = ""
       THEN /\ NextSnapshot
            /\ UNCHANGED <<sent, results, progress, shown>>
       ELSE IF counter > SnapshotTries
       THEN /\ SnapshotGates(<<>>, FALSE, counter)
            /\ UNCHANGED <<sent, progress, shown>>
       ELSE /\ Send("DescribeSnapshots", item)
            /\ \E a \in {Plain("found"), Plain("notfound")} \cup Raises :
                IF a = Plain("found")
                THEN \E p \in {<<"5","0","%">>, Full} :
                        IF ~Contains(Full, p)
                        THEN /\ progress' = p
                             /\ counter' = counter + 1
                             /\ UNCHANGED <<opc, ret, results, item, shown>>
                        ELSE /\ progress' = <<"1","0","0">>
                             /\ shown' = shown \cup {<<item, "100%">>}
                             /\ SnapshotGates(<<>>, TRUE, counter + 1)
                ELSE IF a = Plain("notfound")
                THEN /\ SnapshotGates(
                            <<Entry("Error Code", "Invalid.SnapshotId", 0,
                                    NoException)>>, FALSE, counter + 1)
                     /\ UNCHANGED <<progress, shown>>
                ELSE /\ SnapshotGates(<<HandlerEntry(a)>>, FALSE, counter + 1)
                     /\ UNCHANGED <<progress, shown>>
    /\ UNCHANGED <<pollVars, filterVars, op, input, changed, instances,
                   success_instance_ids, failed_instance_ids, raised, polls,
                   disk>>

\* response = self.get_status('CreateImage', params), set_launch_perms when
\* an image id came back, and the except clauses
create_image_request ==
    /\ op = "create_image"
    /\ opc = "request"
    /\ Send("CreateImage", 0)
    /\ \E a \in {Plain("response"), Plain("None")} \cup Raises,
          sharing \in {"none", "shared", "error code"} :
        /\ a # Plain("response") => sharing = "none"
        /\ IF a \in Raises
           THEN /\ results' = Append(results, HandlerEntry(a))
                /\ UNCHANGED changed
           ELSE /\ results' =
                    IF sharing = "none"
                    THEN Append(results,
                                MessageEntry("Image creation successful"))
                    ELSE results \o
                         <<MessageEntry("Image creation successful"),
                           MessageEntry(sharing)>>
                /\ changed' = (sharing # "error code")
    /\ Return_
    /\ UNCHANGED <<pollVars, filterVars, op, input, item, instances,
                   success_instance_ids, failed_instance_ids, raised, shown,
                   polls, counter, progress, disk>>

\* ---------------------------------------------- delete_vpc / delete_vswitch
\* self.wait_for_vpc_status(vpc_id, 'Available', 4, 16)
DeleteVpcDelay == 4
DeleteVpcTimeout == 16
\* delay = 4; timeout = 120
DeleteVSwitchDelay == 4
DeleteVSwitchTimeout == 120

\* counter is the timeout that is counted down, polls the number of
\* DeleteVSwitch requests issued; sent logs each time.sleep(delay) of the
\* loop of delete_vswitch as well
DeleteCall(o, budget) ==
    /\ OrchEnter(o, Input("id", <<"v-1">>, 0, FALSE, FALSE, ""))
    /\ opc' = "wait"
    /\ counter' = budget
    /\ UNCHANGED <<sent, results, changed, instances, success_instance_ids,
                   failed_instance_ids, ret, raised, shown, polls, progress,
                   disk>>

\* one evaluation of the loop body of wait_for_vpc_status /
\* wait_for_vswitch_status called with 'Available'; after is the caller's
\* own timeout when the wait has returned True
DeleteWait(o, fetch, delay, after) ==
    /\ op = o
    /\ opc = "wait"
    /\ Send(fetch, 1)
    /\ \E ob \in StatusObservations :
        IF ob.kind = "raise"
        THEN /\ Propagate(OtherException)
             /\ UNCHANGED <<counter, shown>>
        ELSE IF ob.kind = "status" /\ StatusInList(ob.status, Available)
        THEN /\ shown' = shown \cup {<<1, ob.status>>}
             /\ opc' = "request"
             /\ counter' = after
             /\ UNCHANGED <<item, ret, raised, polls>>
        ELSE /\ counter' = counter - delay
             /\ IF BudgetSpent(counter')
                THEN Propagate([type |-> "Exception",
                                code |-> "Timeout Error"])
                ELSE UNCHANGED <<opc, item, ret, raised, polls>>
             /\ UNCHANGED shown
    /\ UNCHANGED <<pollVars, filterVars, op, input, results, changed, instances,
                   success_instance_ids, failed_instance_ids, progress, disk>>

\* changed = self.get_status('DeleteVpc', params); return changed
delete_vpc_request ==
    /\ op = "delete_vpc"
    /\ opc = "request"
    /\ Send("DeleteVpc", 1)
    /\ \E a \in {Plain("True"), Plain("False")} \cup Raises :
        IF a \in Raises
        THEN /\ Propagate(a)
             /\ UNCHANGED changed
        ELSE /\ changed' = (a = Plain("True"))
             /\ Return_
             /\ UNCHANGED <<item, raised, polls>>
    /\ UNCHANGED <<pollVars, filterVars, op, input, results, instances,
                   success_instance_ids, failed_instance_ids, shown, counter,
                   progress, disk>>

\* one evaluation of the body of `while timeout > 0` in delete_vswitch;
\* raised holds each exception the except clause met, once
delete_vswitch_request ==
    /\ op = "delete_vswitch"
    /\ opc = "request"
    /\ polls < MaxAttempts
    /\ polls' = polls + 1
    /\ \E a \in {Plain("True"), Plain("False"),
                ServerException("DependencyViolation")} \cup Raises :
        LET issued == IF sent # <<>> /\ sent[Len(sent)].action = "DeleteVSwitch"
                      THEN sent
                      ELSE Append(sent, [action |-> "DeleteVSwitch", item |-> 1])
            met == IF a \in Range(raised) THEN raised ELSE Append(raised, a)
        IN
        IF a.type = "none"
        THEN /\ sent' = issued
             /\ changed' = (a = Plain("True"))
             /\ Return_
             /\ UNCHANGED <<counter, raised>>
        ELSE IF a.type # "ServerException"
        THEN /\ sent' = issued
             /\ raised' = met
             /\ ret' = Raised(a)
             /\ opc' = "done"
             /\ UNCHANGED <<counter, changed>>
        ELSE IF a.code = "DependencyViolation"
        THEN /\ counter' = counter - DeleteVSwitchDelay
             /\ raised' = met
             /\ IF BudgetSpent(counter')
                THEN /\ sent' = issued
                     /\ ret' = Raised([type |-> "Exception",
                                       code |-> "Timeout Error"])
                     /\ opc' = "done"
                ELSE /\ sent' = Append(issued, [action |-> "sleep",
                                               item |-> DeleteVSwitchDelay])
                     /\ UNCHANGED <<opc, ret>>
             /\ UNCHANGED changed
        ELSE /\ sent' = issued
             /\ raised' = met
             /\ UNCHANGED <<counter, opc, ret, changed>>
    /\ UNCHANGED <<pollVars, filterVars, op, input, item, results, instances,
                   success_instance_ids, failed_instance_ids, shown, progress,
                   disk>>

OrchNext ==
    \/ start_instances_call
    \/ start_instances_request
    \/ StopRebootCall("stop_instances")
    \/ StopRebootRequest("stop_instances", "StopInstance")
    \/ StopRebootWait("stop_instances", "Stopped")
    \/ StopRebootCall("reboot_instances")
    \/ StopRebootRequest("reboot_instances", "RebootInstance")
    \/ StopRebootWait("reboot_instances", "Running")
    \/ terminate_instances_call
    \/ terminate_instances_delete
    \/ delete_security_group_call
    \/ delete_security_group_request
    \/ SecurityGroupCall("join_security_group")
    \/ SecurityGroupRequest("join_security_group", "JoinSecurityGroup")
    \/ SecurityGroupVerify("join_security_group")
    \/ SecurityGroupCall("leave_security_group")
    \/ SecurityGroupRequest("leave_security_group", "LeaveSecurityGroup")
    \/ SecurityGroupVerify("leave_security_group")
    \/ create_instance_call
    \/ create_instance_create
    \/ CreateWait("wait_stopped", "Stopped", AfterStopped)
    \/ CreateRequest("AllocatePublicIpAddress", "AllocatePublicIpAddress",
                     AfterAllocate)
    \/ CreateRequest("AssociateEipAddress", "AssociateEipAddress",
                     "StartInstance")
    \/ CreateRequest("StartInstance", "StartInstance", "wait_running")
    \/ CreateWait("wait_running", "Running", "details")
    \/ create_instance_details
    \/ attach_disk_call
    \/ detach_disk_call
    \/ retrieve_instance_for_disk
    \/ DiskRequest("attach_disk", "AttachDisk")
    \/ DiskWait("attach_disk")
    \/ DiskRequest("detach_disk", "DetachDisk")
    \/ DiskWait("detach_disk")
    \/ get_snapshot_image_call
    \/ get_snapshot_image_poll
    \/ DeleteCall("delete_vpc", DeleteVpcTimeout)
    \/ DeleteWait("delete_vpc", "DescribeVpcs", DeleteVpcDelay, 0)
    \/ delete_vpc_request
    \/ DeleteCall("delete_vswitch", DeleteVSwitchTimeout)
    \/ DeleteWait("delete_vswitch", "DescribeVSwitches", DeleteVSwitchDelay,
                  DeleteVSwitchTimeout)
    \/ delete_vswitch_request
    \/ create_image_call
    \/ create_image_poll
    \/ create_image_request
    \/ authorize_security_group_call
    \/ authorize_security_group_rule
    \/ delete_disk_call
    \/ delete_disk_fetch
    \/ delete_disk_delete
    \/ create_disk_call
    \/ create_disk_request
    \/ release_eip_call
    \/ release_eip_request
    \/ release_eip_fetch
    \/ EipCall("associate_eip")
    \/ EipRequest("associate_eip", "AssociateEipAddress")
    \/ EipWait("associate_eip", "InUse")
    \/ EipCall("disassociate_eip")
    \/ EipRequest("disassociate_eip", "UnassociateEipAddress")
    \/ EipWait("disassociate_eip", "Available")

\* the orchestrators, their pollers summarised
OrchSpec == Init /\ [][OrchNext]_vars

\* ==================================================== build_filter_params
\* ECSConnection.build_filter_params and VPCConnection.build_filter_params
\* (the same code) as an operator over the accumulator and the filters in
\* the order the dict yields them, applied by FilterSpec to calls drawn from
\* FilterInputs.  Keys, names and string values are tuples of
\* one-character strings.

\* most 'tag:' keys in one filters mapping
MaxTags == 6

\* a Python value: its type, its text when it is a str, its items when it
\* is a dict
Value(t, r, its) == [type |-> t, repr |-> r, items |-> its]
Item(k, v) == [key |-> k, value |-> v]

\* str.upper on one character, as capitalize() applies it
UpperChar(c) ==
    IF \E i \in 1..Len(LowerLetters) : LowerLetters[i] = c
    THEN UpperLetters[CHOOSE i \in 1..Len(LowerLetters) : LowerLetters[i] = c]
    ELSE c

\* ''.join(s.capitalize() for s in acs_key.split('_')); first: a piece
\* starts here
RECURSIVE Pascal(_, _)
Pascal(s, first) ==
    IF s = <<>> THEN <<>>
    ELSE IF Head(s) = "_" THEN Pascal(Tail(s), TRUE)
    ELSE <<IF first THEN UpperChar(Head(s)) ELSE LowerChar(Head(s))>>
            \o Pascal(Tail(s), FALSE)

\* '%d' % n
RECURSIVE Digits(_)
Digits(n) ==
    IF n < 10
    THEN <<<<"0","1","2","3","4","5","6","7","8","9">>[n + 1]>>
    ELSE Digits(n \div 10) \o Digits(n % 10)

\* 'set_Tag%dKey' % n and 'set_Tag%dValue' % n
TagName(n, field) == <<"s","e","t","_","T","a","g">> \o Digits(n) \o field

\* str.startswith
StartsWith(s, prefix) ==
    Len(s) >= Len(prefix) /\ SubSeq(s, 1, Len(prefix)) = prefix

\* params[name] = value
Put(p, name, value) ==
    [n \in DOMAIN p \cup {name} |-> IF n = name THEN value ELSE p[n]]

\* slots in use are not skipped
FreeSlot_noSkip(p, flag) == flag

\* while ('set_Tag%dKey' % flag) in params: flag += 1
RECURSIVE FreeSlot(_, _)
FreeSlot(p, flag) ==
    IF TagName(flag, <<"K","e","y">>) \in DOMAIN p
    THEN FreeSlot(p, flag + 1)
    ELSE flag

\* the sixth slot is written as well
SlotFree_six(flag) == flag < 7

\* if flag < 6
SlotFree(flag) == flag < 6

\* a well-formed value is warned about as well
Malformed_always(value) == TRUE

\* if not value.startswith('sg-') or len(value) != 12
Malformed(value) ==
    ~StartsWith(value, <<"s","g","-">>) \/ Len(value) # 12

\* the for loop from the item at the head of fs on; acc holds params, the
\* warnings made and the exception raised ("none" while there is none)
RECURSIVE build_filter_params(_, _, _, _)
build_filter_params(acc, fs, flag, hasMethod) ==
    IF fs = <<>> \/ acc.raised # "none" THEN acc
    ELSE
    LET key == Head(fs).key
        value == Head(fs).value
    IN
    IF StartsWith(key, <<"t","a","g",":">>)
    THEN LET slot == FreeSlot(acc.params, flag)
             stored ==
                IF SlotFree(slot)
                THEN Put(Put(acc.params, TagName(slot, <<"K","e","y">>),
                             Value("str", SubSeq(key, 5, Len(key)), <<>>)),
                         TagName(slot, <<"V","a","l","u","e">>), value)
                ELSE acc.params
         IN build_filter_params([acc EXCEPT !.params = stored], Tail(fs),
                                slot + 1, hasMethod)
    ELSE IF key = <<"g","r","o","u","p","_","i","d">>
    THEN IF value.type # "str"
         THEN [acc EXCEPT !.raised = "AttributeError"]
         ELSE build_filter_params(
                [acc EXCEPT
                    !.warned = IF Malformed(value.repr) THEN @ + 1 ELSE @,
                    !.params = Put(@, <<"s","e","t","_","S","e","c","u","r",
                                        "i","t","y","G","r","o","u","p","I",
                                        "d">>, value)],
                Tail(fs), flag, hasMethod)
    ELSE IF value.type # "dict"
    THEN build_filter_params(
            [acc EXCEPT !.params = Put(@, <<"s","e","t","_">>
                                            \o Pascal(key, TRUE), value)],
            Tail(fs), flag, hasMethod)
    ELSE IF ~hasMethod
    THEN [acc EXCEPT !.raised = "AttributeError"]
    ELSE build_filter_params(
            build_filter_params(acc, value.items, 1, hasMethod),
            Tail(fs), flag, hasMethod)

\* the keys and values calls are drawn from
TagItem(j) ==
    Item(<<"t","a","g",":">> \o <<LowerLetters[j]>>,
         Value("str", <<"v">> \o Digits(j), <<>>))
OtherItems ==
    LET gid == <<"g","r","o","u","p","_","i","d">>
        short == Value("str", <<"s","g","-","a","b","c">>, <<>>)
    IN
    {Item(gid, Value("str", <<"s","g","-","1","2","3","4","5","6","7","8",
                              "9">>, <<>>)),
     Item(gid, short),
     Item(gid, Value("str", <<"x","x","-","1","2","3","4","5","6","7","8",
                              "9">>, <<>>)),
     Item(gid, Value("int", <<>>, <<>>)),
     Item(<<"z","o","n","e","_","i","d">>, Value("str", <<"z">>, <<>>)),
     Item(<<"t","a","g","1","_","k","e","y">>, Value("str", <<"k">>, <<>>)),
     Item(<<"t","a","g","6","_","k","e","y">>, Value("str", <<"k">>, <<>>)),
     Item(<<"n","e","s","t","e","d">>, Value("dict", <<>>, <<TagItem(26)>>)),
     Item(<<"n","e","s","t","e","d">>,
          Value("dict", <<>>, <<Item(gid, short)>>))}

\* filters: an item or none, the 'tag:' items, an item or none, the keys
\* distinct; or no dict
FilterInputs ==
    UNION {{[isdict |-> TRUE,
             items |-> pre \o [j \in 1..k |-> TagItem(j)] \o post] :
                k \in 0..MaxTags,
                post \in {<<>>} \cup {<<o>> : o \in {i \in OtherItems :
                            \A q \in Range(pre) : q.key # i.key}}} :
            pre \in {<<>>} \cup {<<i>> : i \in OtherItems}}
    \cup {[isdict |-> FALSE, items |-> <<>>]}

\* params as passed: some of the tag slots 1..5 hold a tag already
build_filter_params_call ==
    /\ fpc = "idle"
    /\ \E f \in FilterInputs, m \in BOOLEAN,
          p \in {[n \in {TagName(i, x) : i \in S,
                          x \in {<<"K","e","y">>, <<"V","a","l","u","e">>}}
                    |-> Value("str", <<"o","l","d">>, <<>>)] :
                        S \in SUBSET (1..5)} :
        /\ filters' = f
        /\ params0' = p
        /\ params' = p
        /\ defined' = m
    /\ fpc' = "called"
    /\ UNCHANGED <<pollVars, orchVars, warned, fret, tagger, tags>>

\* if not isinstance(filters, dict): return; the for loop; the return
build_filter_params_return ==
    /\ fpc = "called"
    /\ LET acc == IF ~filters.isdict
                  THEN [params |-> params, warned |-> 0, raised |-> "none"]
                  ELSE build_filter_params(
                        [params |-> params, warned |-> 0, raised |-> "none"],
                        filters.items, 1, defined)
       IN /\ params' = acc.params
          /\ warned' = acc.warned
          /\ fret' = IF acc.raised = "none" THEN "return" ELSE acc.raised
    /\ fpc' = "done"
    /\ UNCHANGED <<pollVars, orchVars, filters, defined, params0, tagger, tags>>

\* ------------------------------------------------ tags of a mutating call
\* The tag loops of create_instance, create_disk, create_security_group and
\* create_image.  A tag entry is a dict given by the keys it holds; its
\* values are strings.

\* longest tags list
MaxTagEntries == 11

\* 'Tag' + str(tag_no) + 'Key', 'Tag' + str(tag_no) + 'Value'
TagLabel(n, field) == <<"T","a","g">> \o Digits(n) \o field

\* {'tag_key': .., 'tag_value': ..}, {'tag_key': ..} and {}
TagEntry(has, j) == [has |-> has, j |-> j]

\* lists of well-formed entries, with at most one other entry among them
TagLists ==
    UNION {{[j \in 1..n |-> TagEntry({"tag_key", "tag_value"}, j)]} \cup
           {[j \in 1..n |-> TagEntry(IF j = p THEN h
                                      ELSE {"tag_key", "tag_value"}, j)] :
                p \in 1..n, h \in {{}, {"tag_key"}}} :
           n \in 0..MaxTagEntries}

\* if instance_tag and tag_no < 6, of create_image alone
TagRoom(f, tag_no) == f = "create_image" => tag_no < 6

\* for tag in tags: the body of the loop of function f from entry i on
RECURSIVE SetTags(_, _, _, _, _)
SetTags(f, p, ts, i, tag_no) ==
    IF i > Len(ts)
    THEN p
    ELSE LET t == ts[i]
             k == Value("str", <<"k">> \o Digits(t.j), <<>>)
             v == Value("str", <<"v">> \o Digits(t.j), <<>>)
             pk == Put(p, TagLabel(tag_no, <<"K","e","y">>), k)
         IN  IF f \in {"create_instance", "create_disk"}
             THEN IF t.has # {} /\ "tag_value" \in t.has
                  THEN SetTags(f, Put(pk, TagLabel(tag_no,
                                   <<"V","a","l","u","e">>), v),
                               ts, i + 1, tag_no + 1)
                  ELSE SetTags(f, p, ts, i + 1, tag_no)
             ELSE IF t.has # {} /\ TagRoom(f, tag_no)
                  THEN SetTags(f,
                               IF "tag_value" \in t.has
                               THEN Put(pk, TagLabel(tag_no,
                                        <<"V","a","l","u","e">>), v)
                               ELSE pk,
                               ts, i + 1, tag_no + 1)
                  ELSE SetTags(f, p, ts, i + 1, tag_no)

\* the function is called with its tags argument
set_tags_call ==
    /\ fpc = "idle"
    /\ \E f \in {"create_instance", "create_disk", "create_security_group",
                  "create_image"}, ts \in TagLists :
        /\ tagger' = f
        /\ tags' = ts
    /\ fpc' = "tagging"
    /\ UNCHANGED <<pollVars, orchVars, filters, defined, params0, params,
                   warned, fret>>

\* tag_no = 1; if tags: for tag in tags: ...
set_tags_return ==
    /\ fpc = "tagging"
    /\ params' = SetTags(tagger, <<>>, tags, 1, 1)
    /\ fpc' = "tagged"
    /\ UNCHANGED <<pollVars, orchVars, filters, defined, params0, warned,
                   fret, tagger, tags>>

FilterNext ==
    \/ build_filter_params_call
    \/ build_filter_params_return
    \/ set_tags_call
    \/ set_tags_return

FilterSpec == Init /\ [][FilterNext]_vars

\* ================================================================ claims

WallClock ==
    {"wait_for_vpc_status", "wait_for_vswitch_status",
     "wait_for_route_entry_status", "wait_for_eip_status"}

StatusPollers ==
    WallClock \cup {"wait_for_instance_status", "wait_for_disk_status"}

\* ceil(a / b) for b > 0
CeilDiv(a, b) == (a + b - 1) \div b

\* the call has ended with its success result
Succeeded ==
    /\ pc = "done"
    /\ outcome.kind = "return"
    /\ outcome.value =
         CASE fn \in {"wait_for_vpc_status", "wait_for_vswitch_status"} -> "True"
           [] fn \in {"wait_for_eip_status", "wait_for_route_entry_status"} -> "object"
           [] fn = "wait_for_instance_status" -> "None"
           [] fn = "wait_for_disk_status" -> "(True, None)"
           [] OTHER -> "True"

\* every fetch of the call found the resource, in another state than the
\* target (whatever the letter case and the blanks around it)
NeverShown == firstLoose = 0 /\ ~sawNotFound /\ ~sawRaise

\* C1: a wall-clock poller called with interval > 0 and timeout > 0 on a
\* resource that exists and never shows the target status ends by raising
\* the timeout error after exactly ceil(timeout / interval) fetches, and the
\* time it slept differs from timeout by at most one interval.
C1_TimeoutAfterCeilFetches ==
    (pc = "done" /\ fn \in WallClock /\ timeout0 > 0 /\ NeverShown)
    => /\ outcome.kind = "raise"
       /\ outcome.error = "timeout"
       /\ fetches = CeilDiv(timeout0, interval)
       /\ timeout0 - slept <= interval
       /\ slept - timeout0 <= interval

C1_Witness ==
    /\ pc = "done"
    /\ fn = "wait_for_route_entry_status"
    /\ NeverShown
    /\ timeout0 = 5
    /\ interval = 2
    /\ fetches = 3
    /\ slept = 4
    /\ outcome.error = "timeout"

\* C2: a wall-clock poller called with timeout = 0 on a resource that is in
\* the target state fetches the state once and returns its success result.
\* (Every fetch the call made showed the target: none, or the first.)
C2_ZeroTimeoutChecksOnce ==
    (pc = "done" /\ fn \in WallClock /\ timeout0 = 0
        /\ ~sawNotFound /\ ~sawRaise /\ (fetches = 0 \/ firstExact = 1))
    => (fetches = 1 /\ Succeeded)

NoSleepFirst ==
    WallClock \cup {"wait_for_instance_status"}

SleepFirst == {"wait_for_disk_status", "verify_join_remove_securitygrp"}

C4_ReturnsAtFirstMatch ==
    (fn \in WallClock /\ timeout0 > 0 /\ firstExact > 0)
    => /\ Succeeded
       /\ fetches = firstExact
       /\ firstExact <= CeilDiv(timeout0, interval)
       /\ slept = (firstExact - 1) * interval

C4_Witness ==
    /\ fn = "wait_for_eip_status"
    /\ pc = "done"
    /\ timeout0 = 5
    /\ interval = 2
    /\ firstExact = 3
    /\ fetches = 3
    /\ slept = 4
    /\ outcome.value = "object"

\* C5: wait_for_instance_status on an instance that exists and never shows
\* the target, every fetch succeeding, ends with a failure after a bounded
\* number of fetches.
C5_InstanceWaitTerminates ==
    (fn = "wait_for_instance_status")
        ~> (~NeverShown \/ (pc = "done" /\ outcome.kind = "raise"))

\* C6: wait_for_disk_status on a disk that exists and never shows the
\* requested status, every fetch succeeding, performs at most 3 fetches.
C6_DiskWaitBounded ==
    (fn = "wait_for_disk_status" /\ NeverShown) => fetches <= DiskTries

\* C7: verify_join_remove_securitygrp on an instance whose membership never
\* reaches the requested state, every fetch succeeding, performs at most 3
\* fetches.
C7_VerifyBounded ==
    (fn = "verify_join_remove_securitygrp" /\ firstExact = 0 /\ ~sawRaise)
    => fetches <= SecurityGroupTries

\* the call has ended with a not-found failure
NotFoundFailure ==
    /\ pc = "done"
    /\ \/ outcome.kind = "raise" /\ outcome.error = "notfound"
       \/ outcome.kind = "return" /\ outcome.value = "(False, Error)"

\* C8: in every poller, a fetch that reports the resource missing ends the
\* poll at that fetch with a not-found failure.
C8_MissingFailsAtOnce == sawNotFound => NotFoundFailure

\* C9: in every status poller, a fetch whose status equals the target up to
\* letter case is a match: the call returns success at that fetch.
C9_MatchIgnoresCase ==
    (fn \in StatusPollers /\ firstCI > 0) => (Succeeded /\ fetches = firstCI)

\* C10: the timeout failure of a wall-clock poller carries the target state
\* name and the time elapsed, a positive number within one interval of the
\* configured timeout.
C10_TimeoutCarriesElapsed ==
    (pc = "done" /\ fn \in WallClock /\ timeout0 > 0
        /\ outcome.error = "timeout")
    => /\ outcome.errStatus = status
       /\ outcome.errSeconds > 0
       /\ outcome.errSeconds - timeout0 <= interval
       /\ timeout0 - outcome.errSeconds <= interval

\* C11: delete_object_retry issues the delete action at most 4 times in one
\* call when every attempt is answered with the Initializing error.
C11_DeleteAtMostFourAttempts ==
    (fn = "delete_object_retry" /\ ~sawOther) => fetches <= DeleteTries

\* C12: in delete_object_retry an attempt that fails with another error
\* than the Initializing provider code ends the call with that error raised:
\* no sleep and no further attempt follows.
C12_OtherErrorPropagates ==
    (fn = "delete_object_retry" /\ answer \in {"OtherCode", "Error"})
    => (pc = "done" /\ outcome.kind = "raise")

\* ------------------------------------------------- claims on orchestrators

BatchOps == {"start_instances", "terminate_instances", "delete_security_group"}

SecurityGroupOps == {"join_security_group", "leave_security_group"}

\* indices of the requests of an action among the requests issued
RequestsOf(a) == {j \in 1..Len(sent) : sent[j].action = a}

\* C13: start_instances, terminate_instances and delete_security_group never
\* abort on the first failure: whatever the requests raise, every item of
\* the input list is attempted and the call ends by returning its result,
\* never by raising.
C13_BatchNeverAborts ==
    (op \in BatchOps /\ opc = "done")
    => (ret.kind = "return" /\ Len(raised) = Len(input.ids))

IsException(e) == e # NoException

\* the exceptions raised, item after item
Failures == SelectSeq(raised, IsException)

RECURSIVE Select(_, _, _)
\* the ids whose item raised (failed = TRUE) or did not (failed = FALSE)
Select(ids, r, failed) ==
    IF ids = <<>> \/ r = <<>> THEN <<>>
    ELSE IF IsException(Head(r)) = failed
         THEN <<Head(ids)>> \o Select(Tail(ids), Tail(r), failed)
         ELSE Select(Tail(ids), Tail(r), failed)

\* C14: join_security_group and leave_security_group called with a list of
\* N ids never raise, and when the call returns every item was attempted,
\* success_instance_ids holds the ids whose request and verification did
\* not raise and failed_instance_ids the ids of which one raised, both in
\* input order (N in total), and results holds one entry per failed id, in
\* order, with the error raised and, for a provider error, its error code.
C14_EveryIdSucceededOrFailed ==
    (op \in SecurityGroupOps /\ input.kind = "list")
    => /\ ret.kind # "raise"
       /\ opc = "done" =>
            /\ ret.kind = "return"
            /\ Len(raised) = Len(input.ids)
            /\ success_instance_ids = Select(input.ids, raised, FALSE)
            /\ failed_instance_ids = Select(input.ids, raised, TRUE)
            /\ Len(success_instance_ids) + Len(failed_instance_ids)
                   = Len(input.ids)
            /\ Len(results) = Len(failed_instance_ids)
            /\ \A j \in 1..Len(results) :
                /\ results[j].error = Failures[j]
                /\ Failures[j].type = "ServerException" =>
                        /\ results[j].key = "Error Code"
                        /\ results[j].code = Failures[j].code

C14_Witness ==
    /\ op = "join_security_group"
    /\ opc = "done"
    /\ Len(input.ids) = 2
    /\ raised = <<ServerException("IncorrectInstanceStatus"), NoException>>
    /\ success_instance_ids = <<input.ids[2]>>
    /\ failed_instance_ids = <<input.ids[1]>>
    /\ results = <<CodeEntry(ServerException("IncorrectInstanceStatus"))>>

IsErrorEntry(x) == x.key # "instance_id"

\* C15: create_instance with count = N never raises to the caller: the
\* exception of a step of item i is recorded in results, in order, the loop
\* goes on, and when the call ends it has issued CreateInstance exactly N
\* times and returns.
C15_CreateFailuresRecorded ==
    (op = "create_instance")
    => /\ ret.kind # "raise"
       /\ Len(SelectSeq(results, IsErrorEntry)) = Len(Failures)
       /\ \A j \in 1..Len(Failures) :
            SelectSeq(results, IsErrorEntry)[j].error = Failures[j]
       /\ opc = "done" =>
            /\ ret.kind = "return"
            /\ Len(raised) = input.count
            /\ Cardinality(RequestsOf("CreateInstance")) = input.count

C15_Witness ==
    /\ op = "create_instance"
    /\ opc = "done"
    /\ input.count = 2
    /\ raised = <<OtherException, NoException>>
    /\ Cardinality(RequestsOf("CreateInstance")) = 2
    /\ Len(instances) = 1
    /\ ret.kind = "return"

\* C16: create_instance with count = N returns results holding exactly one
\* entry per requested instance: N entries.
C16_OneEntryPerInstance ==
    (op = "create_instance" /\ opc = "done") => Len(results) = input.count

\* C17: in create_instance, StartInstance is issued for an instance only
\* after a fetch has shown it in status Stopped, and an instance is in the
\* instances list only after a fetch has shown it in status Running.
C17_StartAfterStoppedShown ==
    (op = "create_instance")
    => /\ \A j \in RequestsOf("StartInstance") :
            <<sent[j].item, "Stopped">> \in shown
       /\ \A j \in 1..Len(instances) :
            <<instances[j].item, "Running">> \in shown

\* C18: attach_disk on a disk whose status is not 'available' whatever the
\* letter case issues no AttachDisk request, does not raise, and returns
\* changed = False with one error entry.
C18_AttachRefusedUnlessAvailable ==
    (op = "attach_disk" /\ disk.found /\ Lower(disk.status) # available)
    => /\ RequestsOf("AttachDisk") = {}
       /\ opc = "done"
       /\ ret.kind = "return"
       /\ ~changed
       /\ results = <<MessageEntry("Error")>>

C18_Witness ==
    /\ op = "attach_disk"
    /\ opc = "done"
    /\ disk.found
    /\ disk.status = In_use_sp
    /\ results = <<MessageEntry("Error")>>
    /\ sent = <<>>

\* C19: detach_disk on a disk that reports portable = False, or that is
\* attached to no instance (instance id absent or empty), issues no
\* DetachDisk request and returns changed = False with an error entry.
C19_DetachRefused ==
    (op = "detach_disk" /\ disk.found
        /\ (disk.portable = Py("bool", "False")
            \/ disk.instance_id \in {Py("NoneType", "None"), Py("str", "")}))
    => /\ RequestsOf("DetachDisk") = {}
       /\ opc = "done" => (ret.kind = "return" /\ ~changed /\ results # <<>>)

\* C20: get_snapshot_image issues at most 20 DescribeSnapshots requests in
\* one call.
C20_AtMostTwentyRequests ==
    (op = "get_snapshot_image") => counter <= SnapshotTries

\* C21: create_image issues CreateImage only if every snapshot it refers to
\* (the snapshot_id argument, the snapshot_id of each disk_mapping entry) was
\* observed at 100% progress in this call; a call that ends with a snapshot
\* not observed at 100% (not ready, missing, fetch error) has issued no
\* CreateImage and returns changed = False with one error entry.
C21_ImageOnlyFromReadySnapshots ==
    LET SnapshotRefs == {k \in 1..Len(input.ids) : input.ids[k] # ""}
    IN
    (op = "create_image")
    => /\ ret.kind # "raise"
       /\ RequestsOf("CreateImage") # {} =>
            \A k \in SnapshotRefs : <<k, "100%">> \in shown
       /\ (opc = "done" /\ \E k \in SnapshotRefs : <<k, "100%">> \notin shown)
            => /\ RequestsOf("CreateImage") = {}
               /\ ret.kind = "return"
               /\ ~changed
               /\ Len(results) = 1
               /\ results[1].key = "Error Code"

C21_Witness ==
    /\ op = "create_image"
    /\ opc = "done"
    /\ input.ids = <<"s-1", "s-1">>
    /\ shown = {<<1, "100%">>}
    /\ counter > SnapshotTries
    /\ results = <<Entry("Error Code", "Snapshot.NotReady", 0, NoException)>>
    /\ RequestsOf("CreateImage") = {}
    /\ ~changed

\* C28: join_security_group and leave_security_group test the shape of
\* instance_ids before iterating: for an input that is not a list the call
\* issues no provider request and returns changed = False, one error entry in
\* results, and empty success and failed id lists.
C28_NonListRefusedBeforeIteration ==
    (op \in SecurityGroupOps /\ input.kind # "list")
    => /\ sent = <<>>
       /\ opc = "done"
       /\ ret = Returned
       /\ ~changed
       /\ results = <<Entry("Error Message", "none", 0, NoException)>>
       /\ success_instance_ids = <<>>
       /\ failed_instance_ids = <<>>
       /\ polls = 0

C28_Witness ==
    /\ op = "leave_security_group"
    /\ input.kind = "string"
    /\ input.ids = <<"i-2">>
    /\ opc = "done"
    /\ Len(results) = 1
    /\ results[1].key = "Error Message"
    /\ sent = <<>>

\* C29: every batch operation over instance ids (start_instances,
\* stop_instances, reboot_instances, terminate_instances,
\* join_security_group, leave_security_group) processes its items one at a
\* time in input order: while item i is being processed, its status polling
\* included, no request for a later item has been issued.
C29_OneItemAtATime ==
    (op \in {"start_instances", "stop_instances", "reboot_instances",
             "terminate_instances"} \cup SecurityGroupOps
        /\ opc \notin {"idle", "done"})
    => \A j \in 1..Len(sent) : sent[j].item <= item

\* C26: delete_vswitch retries on a dependency violation within 120 s at an
\* interval of 4 s: while every failed DeleteVSwitch attempt failed with the
\* DependencyViolation code, at most 30 requests are issued, each but the
\* first right after a sleep of 4 s, the timeout error is raised after the
\* 30th failure, and an attempt that is answered ends the call with that
\* request as the last one.
C26_DependencyRetryBudget ==
    (op = "delete_vswitch"
        /\ \A e \in Range(raised) : e = ServerException("DependencyViolation"))
    => /\ polls <= DeleteVSwitchTimeout \div DeleteVSwitchDelay
       /\ Cardinality(RequestsOf("DeleteVSwitch")) = polls
       /\ \A j \in RequestsOf("DeleteVSwitch") :
            (\E i \in RequestsOf("DeleteVSwitch") : i < j)
            => sent[j - 1] = [action |-> "sleep", item |-> 4]
       /\ (opc = "request") =>
            counter = DeleteVSwitchTimeout - 4 * polls
       /\ (polls > 0 /\ ret.kind = "raise")
            => /\ polls = 30
               /\ ret.error.code = "Timeout Error"
       /\ (polls > 0 /\ ret = Returned)
            => /\ sent[Len(sent)].action = "DeleteVSwitch"
               /\ opc = "done"

C26_Witness ==
    /\ op = "delete_vswitch"
    /\ raised = <<ServerException("DependencyViolation")>>
    /\ polls = 30
    /\ ret.kind = "raise"
    /\ ret.error.code = "Timeout Error"
    /\ Cardinality(RequestsOf("sleep")) >= 29

\* C27: delete_vswitch lets provider errors propagate: once a DeleteVSwitch
\* attempt has failed with a provider error whose code is not
\* DependencyViolation, the call has ended by raising that error.
C27_OtherProviderErrorPropagates ==
    (op = "delete_vswitch")
    => \A e \in Range(raised) :
        (e.type = "ServerException" /\ e.code # "DependencyViolation")
        => (opc = "done" /\ ret = Raised(e))

\* C30: delete_vpc and delete_vswitch issue DeleteVpc / DeleteVSwitch only
\* after a fetch of this call has shown the status Available; the wait
\* fetches while its budget (16 s for a vpc, 120 s for a vswitch, counted
\* down by 4 s after each fetch) is above 0, and when no fetch shows
\* Available the call raises the timeout error with the budget used up and
\* no delete request issued.
C30_DeleteOnlyWhenAvailable ==
    (op \in {"delete_vpc", "delete_vswitch"})
    => LET deletes == RequestsOf("DeleteVpc") \cup RequestsOf("DeleteVSwitch")
           described == RequestsOf("DescribeVpcs")
                          \cup RequestsOf("DescribeVSwitches")
           budget == IF op = "delete_vpc" THEN 16 ELSE 120
       IN /\ deletes # {} =>
                /\ \E x \in shown : x[2] \in {Available, available}
                /\ \A x \in shown : x[2] \in {Available, available}
                /\ \E i \in described : \A j \in deletes : i < j
          /\ opc = "wait" =>
                /\ deletes = {}
                /\ shown = {}
                /\ \E k \in 0..(budget \div 4 - 1) : counter = budget - 4 * k
          /\ (opc = "done" /\ shown = {})
                => /\ deletes = {}
                   /\ ret.kind = "raise"
                   /\ ~changed
          /\ (ret.kind = "raise" /\ ret.error.code = "Timeout Error"
                /\ polls = 0)
                => /\ counter = 0
                   /\ described # {}
                   /\ deletes = {}

C30_Witness ==
    /\ op = "delete_vpc"
    /\ opc = "done"
    /\ ret.kind = "raise"
    /\ ret.error.code = "Timeout Error"
    /\ counter = 0
    /\ RequestsOf("DescribeVpcs") # {}
    /\ RequestsOf("DeleteVpc") = {}
    /\ shown = {}

\* ------------------------------------------- claims on build_filter_params
\* the filters whose key starts with 'tag:'
TagFilters == {j \in 1..Len(filters.items) :
                StartsWith(filters.items[j].key, <<"t","a","g",":">>)}

\* the names set_Tag<n>Key and set_Tag<n>Value of the slots n in S
SlotNames(S) ==
    {TagName(n, f) : n \in S, f \in {<<"K","e","y">>, <<"V","a","l","u","e">>}}

\* the slots from 6 on that a call of the model can reach
HighSlots == 6..(MaxTags + 6)

\* the names the call added to the accumulator
Added == DOMAIN params \ DOMAIN params0

\* the slots 1..5 whose set_Tag<n>Key is in p
Filled(p) == {n \in 1..5 : TagName(n, <<"K","e","y">>) \in DOMAIN p}

\* the slots hold min(k, 5) of the k 'tag:' keys of a mapping of 'tag:'
\* keys only that was passed with an empty accumulator, each another key
TagsOnlyFillMin ==
    (params0 = <<>> /\ filters.isdict
        /\ TagFilters = 1..Len(filters.items))
    => /\ fret = "return"
       /\ Cardinality(Filled(params)) = Min(Cardinality(TagFilters), 5)
       /\ DOMAIN params = SlotNames(Filled(params))
       /\ \A n \in Filled(params) :
            /\ \E j \in TagFilters :
                /\ params[TagName(n, <<"K","e","y">>)].repr
                     = SubSeq(filters.items[j].key, 5,
                              Len(filters.items[j].key))
                /\ params[TagName(n, <<"V","a","l","u","e">>)]
                     = filters.items[j].value
            /\ \A q \in Filled(params) :
                params[TagName(q, <<"K","e","y">>)]
                    = params[TagName(n, <<"K","e","y">>)] => q = n

\* C22 as stated: build_filter_params writes tag parameters only to slots
\* 1..5: for any filter mapping and any initial params no set_TagNKey /
\* set_TagNValue with N >= 6 is added, and with empty initial params and k
\* 'tag:' keys exactly min(k, 5) slots are filled, each from a distinct
\* filter key, the surplus dropped without an error.
C22_NoSlotFromSixOn ==
    (fpc = "done")
    => /\ Added \cap SlotNames(HighSlots) = {}
       /\ TagsOnlyFillMin

\* C22 amended: the 'tag:' keys are written only to slots 1..5: a name
\* set_TagNKey / set_TagNValue with N >= 6 is added only as the PascalCase
\* name of a plain filter key (tag6_key gives set_Tag6Key); with empty
\* initial params and a mapping of k 'tag:' keys exactly min(k, 5) slots are
\* filled, each from a distinct filter key, the surplus dropped without an
\* error.
C22_TagFiltersUseSlotsOneToFive ==
    (fpc = "done")
    => /\ \A name \in Added \cap SlotNames(HighSlots) :
            \E j \in 1..Len(filters.items) :
                /\ j \notin TagFilters
                /\ filters.items[j].value.type = "str"
                /\ name = <<"s","e","t","_">>
                            \o Pascal(filters.items[j].key, TRUE)
       /\ TagsOnlyFillMin

C22_Witness ==
    /\ fpc = "done"
    /\ params0 = <<>>
    /\ Cardinality(TagFilters) = 6
    /\ Len(filters.items) = 6
    /\ Filled(params) = 1..5
    /\ DOMAIN params \cap SlotNames(HighSlots) = {}
    /\ fret = "return"

\* every 'tag:' filter that is stored is stored in a slot that was unused
\* before the call
TagsStoredInUnusedSlots ==
    \A n \in Filled(params) :
        (\E j \in TagFilters :
            params[TagName(n, <<"K","e","y">>)].repr
                = SubSeq(filters.items[j].key, 5, Len(filters.items[j].key)))
        => n \notin Filled(params0)

\* C23 as stated: build_filter_params never overwrites a tag slot that is
\* already in the accumulator: each set_TagNKey / set_TagNValue entry of the
\* initial params has its initial value after the call, and every 'tag:'
\* filter that is stored is stored in a slot that was unused before the
\* call.
C23_TagSlotsNotOverwritten ==
    (fpc = "done")
    => /\ \A name \in DOMAIN params0 :
            name \in DOMAIN params /\ params[name] = params0[name]
       /\ TagsStoredInUnusedSlots

\* C23 amended: a 'tag:' filter never overwrites a tag slot that is already
\* in the accumulator: each set_TagNKey / set_TagNValue entry of the initial
\* params is still there after the call, with its initial value unless a
\* plain filter key has that PascalCase name (tag1_key gives set_Tag1Key)
\* and its value was stored instead, and every 'tag:' filter that is stored
\* is stored in a slot that was unused before the call.
C23_TagFiltersKeepUsedSlots ==
    (fpc = "done")
    => /\ \A name \in DOMAIN params0 :
            /\ name \in DOMAIN params
            /\ \/ params[name] = params0[name]
               \/ \E j \in 1..Len(filters.items) :
                    /\ j \notin TagFilters
                    /\ filters.items[j].value.type = "str"
                    /\ name = <<"s","e","t","_">>
                                \o Pascal(filters.items[j].key, TRUE)
                    /\ params[name] = filters.items[j].value
       /\ TagsStoredInUnusedSlots

C23_Witness ==
    /\ fpc = "done"
    /\ Filled(params0) = {1, 3}
    /\ Cardinality(TagFilters) = 2
    /\ Len(filters.items) = 2
    /\ Filled(params) = {1, 2, 3, 4}
    /\ \A name \in DOMAIN params0 : params[name] = params0[name]
    /\ params[TagName(2, <<"K","e","y">>)].repr = <<"a">>
    /\ params[TagName(4, <<"K","e","y">>)].repr = <<"b">>

\* the filter with the key group_id, when its value is a string
GroupFilters == {j \in 1..Len(filters.items) :
                    /\ filters.items[j].key = <<"g","r","o","u","p","_","i","d">>
                    /\ filters.items[j].value.type = "str"}

\* C24: a group_id filter whose value does not start with 'sg-' or is not
\* 12 long makes one warning and is still stored unchanged as
\* set_SecurityGroupId; a well-formed value is stored with no warning; in
\* both cases the call completes and the filters after it are processed
\* (stated for filters without a mapping as a value: those are C25).
C24_GroupIdWarnedAndStored ==
    (fpc = "done" /\ GroupFilters # {}
        /\ \A j \in 1..Len(filters.items) :
                filters.items[j].value.type = "str")
    => \A g \in GroupFilters :
        LET value == filters.items[g].value
            wellFormed == /\ StartsWith(value.repr, <<"s","g","-">>)
                          /\ Len(value.repr) = 12
        IN /\ fret = "return"
           /\ warned = IF wellFormed THEN 0 ELSE 1
           /\ params[<<"s","e","t","_","S","e","c","u","r","i","t","y","G",
                       "r","o","u","p","I","d">>] = value
           /\ \A j \in (g + 1)..Len(filters.items) :
                IF j \in TagFilters
                THEN (Cardinality(Filled(params0)) + Cardinality(TagFilters)
                        <= 5)
                     => \E n \in Filled(params) \ Filled(params0) :
                            params[TagName(n, <<"V","a","l","u","e">>)]
                                = filters.items[j].value
                ELSE params[<<"s","e","t","_">>
                              \o Pascal(filters.items[j].key, TRUE)]
                        = filters.items[j].value

C24_Witness ==
    /\ fpc = "done"
    /\ filters.isdict
    /\ Len(filters.items) = 4
    /\ GroupFilters = {1}
    /\ filters.items[1].value.repr = <<"s","g","-","a","b","c">>
    /\ filters.items[4].key = <<"z","o","n","e","_","i","d">>
    /\ warned = 1
    /\ fret = "return"
    /\ params[<<"s","e","t","_","S","e","c","u","r","i","t","y","G","r","o",
                "u","p","I","d">>].repr = <<"s","g","-","a","b","c">>
    /\ <<"s","e","t","_","Z","o","n","e","I","d">> \in DOMAIN params

\* C25: build_filter_params raises no exception for any filter mapping: the
\* call returns normally, and a filter whose value is a mapping has had the
\* same rules applied to the nested mapping with the same accumulator.
C25_NoExceptionNestedExpanded ==
    (fpc = "done")
    => /\ fret = "return"
       /\ \A j \in 1..Len(filters.items) :
            (filters.items[j].value.type = "dict"
                /\ filters.items[j].value.items[1].key
                     = <<"g","r","o","u","p","_","i","d">>)
            => <<"s","e","t","_","S","e","c","u","r","i","t","y","G","r","o",
                 "u","p","I","d">> \in DOMAIN params

\* C32: stop_instances returns the list of the instances stopped and
\* reboot_instances the list of the instances rebooted: when the call
\* returns, the result holds exactly the input ids whose poll observed the
\* target status (Stopped, Running), in input order; when every instance
\* reached it the result is the input list.
C32_ResultListsInstancesAtTarget ==
    (op \in {"stop_instances", "reboot_instances"} /\ opc = "done"
        /\ ret = Returned)
    => LET target == IF op = "stop_instances" THEN "Stopped" ELSE "Running"
           reached == {k \in 1..Len(input.ids) : <<k, target>> \in shown}
       IN /\ Len(results) = Cardinality(reached)
          /\ \A k \in reached : input.ids[k] \in Range(results)
          /\ reached = 1..Len(input.ids) => results = input.ids

\* the tries each decorated poller is wrapped with
TriesOf(f) ==
    CASE f = "wait_for_instance_status" -> InstanceTries
      [] f = "wait_for_disk_status" -> DiskTries
      [] f = "verify_join_remove_securitygrp" -> SecurityGroupTries
      [] OTHER -> DeleteTries

\* the invocation of f in progress is the k-th of the call
Invocation == TriesOf(fn) - mtries + 1

\* what one step of a decorated call does to the retry budget
RetryStep ==
    fn \in Decorated
       => /\ (pc' # "idle" /\ fn' \in Decorated)
                => /\ mtries' \in 1..TriesOf(fn')
                   /\ mdelay' = RetryDelay
                                 * RetryBackoff ^ (TriesOf(fn') - mtries')
          /\ (pc = "raised" /\ pc' # "done")
                => /\ Invocation' = Invocation + 1
                   /\ slept' = Min(slept + RetryDelay
                                            * RetryBackoff ^ (Invocation - 1),
                                   MaxSlept)
                   /\ pc' = BodyStart(fn)
          /\ (pc = "raised" /\ pc' = "done")
                => (Invocation = TriesOf(fn) /\ outcome'.kind = "raise")
          /\ (pc # "raised" /\ pc' = "done" /\ outcome'.kind = "return")
                => mtries' = mtries

\* C39: a function wrapped by retry with (tries n, delay, backoff) is invoked
\* at most n times in one call; an invocation that raises is followed by a
\* sleep of delay * backoff^(k-1) before the (k+1)-th invocation; the result
\* of the first invocation that does not raise ends the call; an error
\* reaches the caller only from the n-th invocation.
C39_RetryBudgetAndBackoff == [][RetryStep]_vars

\* the tenth invocation of wait_for_instance_status raised after sleeps of
\* 30, 60, ... seconds and its exception reached the caller
C39_Witness ==
    /\ fn = "wait_for_instance_status"
    /\ pc = "done"
    /\ outcome.kind = "raise"
    /\ mtries = 1
    /\ mdelay = RetryDelay * RetryBackoff ^ (InstanceTries - 1)

\* C35: verify_join_remove_securitygrp in mode 'remove' returns True at the
\* first fetch whose instance list shows the instance without group_id (an
\* empty group list included), whatever the earlier fetches of the call
\* showed.
C35_RemoveVerifiedAtFirstAbsence ==
    (fn = "verify_join_remove_securitygrp" /\ Lower(mode) = remove
        /\ firstExact > 0)
    => (pc = "done" /\ outcome = Return("True") /\ fetches = firstExact)

\* C36: attach_disk and detach_disk that get no disk from the fetch (the
\* provider lists none, or the fetch fails) end by returning changed = False
\* with one error entry: nothing is raised and no AttachDisk or DetachDisk
\* request is issued.
C36_UnlistedDiskReturnsError ==
    (op \in {"attach_disk", "detach_disk"} /\ opc = "done" /\ ~disk.found
        /\ (op = "attach_disk" => Truthy(input.instance_id)))
    => /\ ret = Returned
       /\ ~changed
       /\ Len(results) = 1
       /\ sent = <<>>

\* most tags one request of the function may carry
TagLimit == IF tagger = "create_image" THEN 5 ELSE 10

\* C31: no mutating call sets more than 10 tags in one request: whatever the
\* number of tag entries passed to create_instance, create_disk,
\* create_security_group or create_image, the request parameters hold tag
\* slots numbered 1..10 only (1..5 for create_image).
C31_AtMostTenTags ==
    (fpc = "tagged")
    => \A n \in 1..Len(tags) :
            n > TagLimit
            => /\ TagLabel(n, <<"K","e","y">>) \notin DOMAIN params
               /\ TagLabel(n, <<"V","a","l","u","e">>) \notin DOMAIN params

\* C33: associate_eip and disassociate_eip return True if and only if the
\* poll after the request observed the EIP in the target status (InUse,
\* Available): not True when the EIP was not found, not False when the
\* status was reached.
C33_EipResultTellsTargetReached ==
    (op \in {"associate_eip", "disassociate_eip"} /\ opc = "done"
        /\ ret = Returned)
    => (changed <=> \E t \in {"InUse", "Available"} : <<1, t>> \in shown)

\* the fetch of try k listed the EIP
Listed(k) == <<k, "listed">> \in shown

\* the fetch of try k listed no EIP
Unlisted(k) == <<k, "unlisted">> \in shown

\* C38: release_eip issues ReleaseEipAddress at most 10 times in one call;
\* every request that is accepted is followed by a fetch of the EIP; the call
\* returns True at the first fetch that lists no EIP and only then; a fetch
\* that lists the EIP is followed by a sleep of 3 s and, after the 10th try,
\* by the error.
C38_ReleaseAtMostTenTries ==
    (op = "release_eip")
    => LET req == RequestsOf("ReleaseEipAddress")
           tries == Cardinality(req)
       IN /\ tries <= 10
          /\ \A j \in req :
                /\ sent[j].item = Cardinality({i \in req : i <= j})
                /\ j < Len(sent) => sent[j + 1].action = "DescribeEipAddresses"
                /\ j > 1 => /\ sent[j - 1] = [action |-> "sleep", item |-> 3]
                            /\ Listed(sent[j].item - 1)
          /\ \A k \in 1..tries :
                Unlisted(k) => (k = tries /\ opc = "done" /\ ret = Returned
                                    /\ changed)
          /\ (opc = "done" /\ ret = Returned) => Unlisted(tries)
          /\ changed => (Unlisted(tries) /\ ~Listed(tries))
          /\ Listed(10) => (opc = "done" /\ ret.kind = "raise"
                                /\ sent[Len(sent)].action = "sleep")

\* the EIP was still listed after nine tries and the tenth fetch listed none
C38_Witness ==
    /\ op = "release_eip"
    /\ opc = "done"
    /\ Cardinality(RequestsOf("ReleaseEipAddress")) = 10
    /\ Listed(9)
    /\ Unlisted(10)
    /\ changed

\* C37: create_disk returns its triple in every case: when the CreateDisk
\* request fails with a provider error the call does not raise, changed is
\* False and the error code is in results; changed is True only when the
\* request succeeded, with the disk the provider returned.
C37_CreateDiskAlwaysReturns ==
    (op = "create_disk" /\ opc = "done")
    => /\ ret = Returned
       /\ raised # <<>>
            => /\ ~changed
               /\ raised[1].type = "ServerException"
                    => results = <<CodeEntry(raised[1])>>
       /\ changed => (raised = <<>> /\ disk.found)

\* C40: delete_disk issues DeleteDisk only when the fetch of the call listed
\* the disk; for a disk the provider does not list it returns changed =
\* False with one 'not found' entry and no DeleteDisk request; changed is
\* True only after a DeleteDisk attempt reported success; an error of the
\* fetch or of the delete never leaves the call: it ends by returning, the
\* error in results.
C40_DeleteDiskOnlyWhenListed ==
    (op = "delete_disk")
    => /\ RequestsOf("DeleteDisk") # {} => <<1, "listed">> \in shown
       /\ (opc = "done" /\ <<1, "unlisted">> \in shown)
            => /\ ~changed
               /\ results = <<MessageEntry("Error Message")>>
               /\ RequestsOf("DeleteDisk") = {}
       /\ changed => (<<1, "deleted">> \in shown
                        /\ RequestsOf("DeleteDisk") # {})
       /\ opc = "done" => ret = Returned
       /\ raised # <<>>
            => (opc = "done" /\ ~changed
                    /\ results = <<HandlerEntry(raised[1])>>)

\* the provider lists no disk: the call returned the 'not found' entry
C40_Witness ==
    /\ op = "delete_disk"
    /\ opc = "done"
    /\ <<1, "unlisted">> \in shown
    /\ results = <<MessageEntry("Error Message")>>
    /\ ~changed

\* the rules of a direction
RulesOf(d) == IF d = "inbound" THEN 1..Len(input.ids) ELSE 1..input.count

\* the requests issued for rule k of direction d
Attempts(d, k) == {j \in 1..Len(sent) : sent[j] = [action |-> d, item |-> k]}

\* the request for rule k of direction d was made and reported success
Authorized(d, k) == \E j \in Attempts(d, k) : raised[j] = Plain("True")

\* C34: authorize_security_group attempts every rule of both directions: the
\* call returns, every rule was requested once, the failed list of a
\* direction holds exactly the rules whose request did not succeed, and the
\* 'authorization successful' message of a direction that has rules is in
\* result_details if and only if every rule of it succeeded.
C34_EveryRuleAccountedFor ==
    (op = "authorize_security_group" /\ opc = "done")
    => /\ ret = Returned
       /\ \A d \in {"inbound", "outbound"} :
            LET failed_rules == IF d = "inbound"
                                THEN instances ELSE failed_instance_ids
            IN /\ \A k \in RulesOf(d) :
                    /\ Cardinality(Attempts(d, k)) = 1
                    /\ k \in Range(failed_rules) <=> ~Authorized(d, k)
               /\ RulesOf(d) # {}
                    => ((\E j \in 1..Len(results) :
                            /\ results[j].key = d
                            /\ results[j].code = "successful")
                        <=> \A k \in RulesOf(d) : Authorized(d, k))

====
